---- MODULE Spec2Model ----
(***************************************************************************)
(* Google Calendar synchronisation of the arcane-projects plugin:          *)
(* GoogleCalendarSyncManager (lib/googleCalendar/syncManager.ts),          *)
(* GoogleCalendarSyncEngine (lib/googleCalendar/syncEngine.ts), the        *)
(* record/event mapping (mapping.ts) and the retrying API client (api.ts). *)
(* Every await of the code is a step boundary: a pass is suspended at      *)
(* "fetch" (getEvents), "remoteWrite" (createEvent / updateEvent),         *)
(* "recordWrite" (updateRecord of the write-back) and "noteWrite"          *)
(* (updateRecord / createNote of the Google-to-Obsidian direction).        *)
(***************************************************************************)
EXTENDS Integers, Sequences, FiniteSets, TLC

\* ------------------------------------------------------------------ bounds
MaxTime == 2
MaxPasses == 2
MaxEngines == 2
MaxCreated == 2
MaxStarts == 2
MaxCount == 4

\* ------------------------------------------------------- program constants
ShortIdLen == 8
DefaultSyncInterval == 15
MinSyncInterval == 1
MaxSyncInterval == 1440

NoId == "none"
UntitledEvent == "Untitled Event"

VARIABLES now, store, remote, created, config, syncEngine, syncInterval,
          engines, passes, started, lastCall

\* api: one GoogleCalendarAPI client and the executeWithRetry call it runs.
\* syncStatus: the syncStatus store.  ui: the callers of the manager (who
\* awaits which pass, the deletion being awaited, how the last call settled
\* and the notices it raised).
VARIABLES api, syncStatus, ui

\* lifecycle: the interval timers armed with setInterval and not cleared, and
\* whether destroy() has been called.
VARIABLES lifecycle

\* expansion: one call of parseRecurrenceRule: its arguments, its locals
\* (current, occurrenceCount, occurrences) and where it stands.
VARIABLES expansion

\* mapping: one event or one record taken through mapGoogleEventToFrontmatter
\* and mapRecordToGoogleEvent.
VARIABLES mapping

vars == <<now, store, remote, created, config, syncEngine, syncInterval,
          engines, passes, started, lastCall, api, syncStatus, ui, lifecycle,
          expansion, mapping>>

\* The state of the synchronisation (manager, engines, vault, calendar).
syncVars == <<now, store, remote, created, config, syncEngine, syncInterval,
              engines, passes, started, lastCall>>

Min(a, b) == IF a < b THEN a ELSE b

\* ----------------------------------------------------------- identifiers
\* The characters of the event ids; an instance of a recurring event carries
\* the id of its master followed by a suffix.
IdChars(id) ==
  CASE id = "m1" -> <<"m", "a", "s", "t", "e", "r", "0", "1", "k">>
    [] id = "o1" -> <<"m", "a", "s", "t", "e", "r", "0", "1", "k", "_", "9">>
    [] id = "e1" -> <<"e", "v", "e", "n", "t", "0", "0", "1", "q">>
    [] id = "x1" -> <<"x", "7">>
    [] id = "c1" -> <<"c", "r", "e", "a", "t", "e", "d", "0", "1">>
    [] id = "c2" -> <<"c", "r", "e", "a", "t", "e", "d", "0", "2">>
    [] OTHER -> <<"c", "r", "e", "a", "t", "e", "d", "0", "3">>

\* id.substring(0, 8)
ShortId(id) == SubSeq(IdChars(id), 1, Min(ShortIdLen, Len(IdChars(id))))

CreatedId(k) == CASE k = 1 -> "c1" [] k = 2 -> "c2" [] OTHER -> "c3"

\* String.prototype.trim on the titles of the model
TrimTitle(s) == IF s = " " THEN "" ELSE s

\* noteTitle.replace(/[\\/:*?"<>|]/g, '-')
SanitizeTitle(s) == IF s = "Q1/Q2" THEN "Q1-Q2" ELSE s

\* calendarId?.trim()
TrimCalendarId(c) == IF c = " " THEN "" ELSE c

\* ------------------------------------------------------------ remote events
EvM1 == [id |-> "m1", summary |-> "Standup", date |-> "2024-01-02",
         allDay |-> FALSE, recurrence |-> TRUE, recurringEventId |-> NoId,
         dateOk |-> TRUE, updated |-> 1]
EvO1 == [id |-> "o1", summary |-> "Standup", date |-> "2024-01-09",
         allDay |-> FALSE, recurrence |-> FALSE, recurringEventId |-> "m1",
         dateOk |-> TRUE, updated |-> 1]
EvE1 == [id |-> "e1", summary |-> "Q1/Q2", date |-> "2024-03-01",
         allDay |-> TRUE, recurrence |-> FALSE, recurringEventId |-> NoId,
         dateOk |-> TRUE, updated |-> 1]
EvX1 == [id |-> "x1", summary |-> "", date |-> "Invalid Date",
         allDay |-> TRUE, recurrence |-> FALSE, recurringEventId |-> NoId,
         dateOk |-> FALSE, updated |-> 1]


\* ------------------------------------------------------------ local records
LocalNote(n) == <<"note", n, "", <<>>>>

Values(timing, title) ==
  [eventId |-> NoId, calId |-> "", sync |-> "undef", lastSync |-> 0,
   timing |-> timing, title |-> title, date |-> "2024-03-01",
   recurring |-> FALSE, dirty |-> FALSE]

Notes(v1, v2) ==
  << [id |-> LocalNote("n1"), values |-> v1],
     [id |-> LocalNote("n2"), values |-> v2] >>

\* The vaults and calendars a run starts from: two dated notes beside a
\* recurring event and one of its instances; a note whose date does not parse
\* beside an orphan instance and an event without a usable start; a note the
\* user linked by hand to the event e1 (google-event-id in its frontmatter,
\* never synced).
InitialWorlds ==
  { [store |-> Notes(Values("due", "Plan"), Values("due", "")),
     remote |-> {EvO1, EvM1}],
    [store |-> Notes(Values("bad", "Plan"), Values("due", "")),
     remote |-> {EvO1, EvX1}],
    [store |-> Notes(Values("due", "Plan"),
                     [Values("due", "") EXCEPT !.eventId = "e1"]),
     remote |-> {EvE1, EvM1}] }

\* The vault and calendar of the runs that exercise the manager: one note,
\* one event.
SmallWorld ==
  [store |-> << [id |-> LocalNote("n1"), values |-> Values("due", "Plan")] >>,
   remote |-> {EvE1}]

\* ------------------------------------------------------------ configuration
Config(en, cal, au) ==
  [enabled |-> en, credentials |-> "ok", calendarId |-> cal,
   autoSync |-> au, syncInterval |-> DefaultSyncInterval, lastSync |-> 0]

ConfigInputs ==
  { Config(FALSE, "cal", FALSE), Config(TRUE, "cal", TRUE),
    Config(TRUE, " ", FALSE), Config(TRUE, "", FALSE) }

defaultConfig ==
  [enabled |-> FALSE, credentials |-> "", calendarId |-> "",
   autoSync |-> FALSE, syncInterval |-> DefaultSyncInterval, lastSync |-> 0]

NewEngine(cfg) ==
  [syncInProgress |-> FALSE, conflicts |-> {}, lastSync |-> cfg.lastSync]

NoResult ==
  [status |-> "none", error |-> "none", obsidianToGoogle |-> 0,
   googleToObsidian |-> 0, conflicts |-> {}]

NoPass ==
  [pc |-> "idle", eng |-> 0, calendarId |-> "",
   frame |-> <<>>, events |-> <<>>, records |-> <<>>, groups |-> <<>>,
   i |-> 0, o2g |-> 0, g2o |-> 0,
   pending |-> NoId, stamp |-> 0, begun |-> 0, log |-> <<>>,
   result |-> NoResult]

\* The last step, when it was an invocation: who called, on which engine, with
\* which arguments, and how the call was answered before its first await.
Call(origin, eng, level, cal, frameOk, result) ==
  [origin |-> origin, eng |-> eng, level |-> level, calendarId |-> cal,
   frameOk |-> frameOk, result |-> result]

NoCall == Call("none", 0, "none", "", TRUE, "none")

LogEntry(op, rec, ev, ok) == [op |-> op, rec |-> rec, ev |-> ev, ok |-> ok]

\* ------------------------------------------------------------------ mapping
isCalendarEvent(v) == v.sync # "false" /\ v.timing # "none"

shouldSyncToGoogle(v) == isCalendarEvent(v) /\ v.sync \in {"true", "undef"}

isRecordModified(v) == IF v.lastSync = 0 THEN TRUE ELSE v.eventId = NoId

\* mapRecordToGoogleEvent throws for a record without date information and
\* for one whose date or clock fields do not parse.
MapRecordOk(v) == v.timing \in {"due", "timed"}

mapRecordToGoogleEvent(v) ==
  [summary |-> IF v.title # "" THEN v.title ELSE UntitledEvent,
   date |-> v.date, allDay |-> v.timing = "due"]

BaseId(ev) == IF ev.recurringEventId # NoId THEN ev.recurringEventId ELSE ev.id

\* mapGoogleEventToFrontmatter throws (safeDateParse) when the start or end
\* of the event does not parse.
MapEventOk(ev) == ev.dateOk

\* A mapping that takes the id of the event itself.
mapGoogleEventToFrontmatter_OwnId(ev, t) ==
  [eventId |-> ev.id, sync |-> "true", lastSync |-> t,
   timing |-> IF ev.allDay THEN "due" ELSE "timed", date |-> ev.date,
   recurring |-> (ev.recurrence \/ ev.recurringEventId # NoId)]

mapGoogleEventToFrontmatter(ev, t) ==
  [eventId |-> BaseId(ev), sync |-> "true", lastSync |-> t,
   timing |-> IF ev.allDay THEN "due" ELSE "timed", date |-> ev.date,
   recurring |-> (ev.recurrence \/ ev.recurringEventId # NoId)]

\* ------------------------------------------------------------- API client
RawResults == {"ok", "401", "403", "network", "other"}

CallResult(ok, err, refreshed, attempts) ==
  [ok |-> ok, error |-> err, refreshed |-> refreshed, attempts |-> attempts]

ExecuteWithRetry(first, refresh, retry) ==
  IF first = "ok" THEN CallResult(TRUE, "none", FALSE, 1)
  ELSE IF first = "401" THEN
    IF refresh = "ok" THEN
      IF retry = "ok" THEN CallResult(TRUE, "none", TRUE, 2)
      ELSE CallResult(FALSE, "TOKEN_REFRESH_FAILED", TRUE, 2)
    ELSE CallResult(FALSE, "TOKEN_REFRESH_FAILED", FALSE, 1)
  ELSE IF first = "403" THEN CallResult(FALSE, "API_QUOTA_EXCEEDED", FALSE, 1)
  ELSE IF first = "network" THEN CallResult(FALSE, "NETWORK_ERROR", FALSE, 1)
  ELSE CallResult(FALSE, "UNKNOWN_ERROR", FALSE, 1)

\* The answers of a remote call, the first attempt drawn from raw.
CallOutcomes(raw) ==
  { ExecuteWithRetry(f, r, t) :
      f \in raw, r \in {"ok", "fail"}, t \in RawResults }

\* GoogleCalendarError.fromError: a typed error is kept, anything else
\* becomes UNKNOWN_ERROR.
ErrorTypes ==
  {"AUTHENTICATION_FAILED", "AUTHORIZATION_REQUIRED", "TOKEN_REFRESH_FAILED",
   "API_QUOTA_EXCEEDED", "NETWORK_ERROR", "INVALID_CONFIGURATION",
   "SYNC_IN_PROGRESS", "CALENDAR_NOT_FOUND", "EVENT_NOT_FOUND",
   "VALIDATION_ERROR", "UNKNOWN_ERROR"}

fromError(err) == IF err \in ErrorTypes THEN err ELSE "UNKNOWN_ERROR"

\* ---- executeWithRetry, one await at a time
\* The errors the googleapis client raises: an HTTP status or a system error
\* code, or a message only.
ApiError(code, message) == [code |-> code, message |-> message]

NoError == ApiError("none", "")

ApiErrors ==
  {ApiError("401", ""), ApiError("none", "401"),
   ApiError("403", ""), ApiError("none", "quota"),
   ApiError("ENOTFOUND", ""), ApiError("ECONNREFUSED", ""),
   ApiError("ETIMEDOUT", ""), ApiError("none", "network"),
   ApiError("500", "")}

isAuthenticationError(e) == e.code = "401" \/ e.message = "401"

isQuotaExceededError(e) == e.code = "403" \/ e.message = "quota"

isNetworkError(e) ==
  e.code \in {"ENOTFOUND", "ECONNREFUSED", "ETIMEDOUT"} \/ e.message = "network"

\* The class of a raw answer, as executeWithRetry tells them apart.
RawClass(r) ==
  IF r = NoError THEN "ok"
  ELSE IF isAuthenticationError(r) THEN "401"
  ELSE IF isQuotaExceededError(r) THEN "403"
  ELSE IF isNetworkError(r) THEN "network"
  ELSE "other"

ApiOps == {"getEvents", "createEvent", "updateEvent", "deleteEvent"}

NewTokens == {"t1", "t2"}

ApiResult(ok, type, cause) == [ok |-> ok, type |-> type, cause |-> cause]

NoApiResult == ApiResult(FALSE, "none", NoError)

\* A client as its constructor leaves it.
NewApi(cb) ==
  [pc |-> "idle", op |-> "none", onTokenRefresh |-> cb, token |-> "t0",
   delivered |-> "none", first |-> NoError, trace |-> <<>>,
   result |-> NoApiResult]

ApiDone(a, res) == [a EXCEPT !.pc = "done", !.result = res]

\* executeWithRetry without its quota and network branches.
OtherFailure_Generic(e) == ApiResult(FALSE, fromError(e.code), e)

\* The error thrown for a first-attempt failure that is not a 401.
OtherFailure(e) ==
  IF isQuotaExceededError(e) THEN ApiResult(FALSE, "API_QUOTA_EXCEEDED", e)
  ELSE IF isNetworkError(e) THEN ApiResult(FALSE, "NETWORK_ERROR", e)
  ELSE ApiResult(FALSE, fromError(e.code), e)

\* The catch around the refresh and the retry.
RefreshCatch(a) ==
  ApiDone(a, ApiResult(FALSE, "TOKEN_REFRESH_FAILED", a.first))

\* executeWithRetry without the notification of the callback.
NotifyCallback_Skip(a, t) == a

\* The callback is invoked when one is registered.
NotifyCallback(a, t) ==
  IF a.onTokenRefresh
  THEN [a EXCEPT !.delivered = t, !.trace = Append(@, "onTokenRefresh")]
  ELSE a

\* new GoogleCalendarAPI(config, onTokenRefresh)
ApiConstruct(cb) ==
  /\ api.pc \in {"idle", "done"}
  /\ api' = NewApi(cb)

\* A method of the client enters executeWithRetry and awaits apiCall().
ApiCall(op) ==
  /\ api.pc \in {"idle", "done"}
  /\ api' = [api EXCEPT !.pc = "call", !.op = op, !.delivered = "none",
                        !.first = NoError, !.trace = <<>>,
                        !.result = NoApiResult]

\* The first apiCall() settles with r: NoError when it resolves.
ApiAttempt(r) ==
  /\ api.pc = "call"
  /\ LET a == [api EXCEPT !.trace = Append(@, "apiCall")]
     IN api' = IF r = NoError THEN ApiDone(a, ApiResult(TRUE, "none", NoError))
               ELSE IF isAuthenticationError(r)
               THEN [a EXCEPT !.pc = "refresh", !.first = r]
               ELSE ApiDone([a EXCEPT !.first = r], OtherFailure(r))

\* refreshAccessToken() settles with t: a new access token or "fail".
ApiRefresh(t) ==
  /\ api.pc = "refresh"
  /\ LET a == [api EXCEPT !.trace = Append(@, "refreshAccessToken")]
     IN api' = IF t = "fail" THEN RefreshCatch(a)
               ELSE NotifyCallback([a EXCEPT !.pc = "retry", !.token = t], t)

\* The retried apiCall() settles with r: NoError when it resolves.
ApiRetry(r) ==
  /\ api.pc = "retry"
  /\ LET a == [api EXCEPT !.trace = Append(@, "apiCall")]
     IN api' = IF r = NoError THEN ApiDone(a, ApiResult(TRUE, "none", NoError))
               ELSE RefreshCatch(a)

\* events.list with singleEvents=false, orderBy=updated: the events of the
\* calendar in ascending order of modification, ties in any order.
RECURSIVE SeqsOf(_)
SeqsOf(S) ==
  IF S = {} THEN {<<>>}
  ELSE UNION { { <<x>> \o s : s \in SeqsOf(S \ {x}) } : x \in S }

getEvents(cal) ==
  { s \in SeqsOf(cal) :
      \A a, b \in 1..Len(s) : a < b => s[a].updated <= s[b].updated }

\* -------------------------------------------------------- engine, helpers
\* A grouping that keeps every fetched event.
GroupStep_NoGrouping(acc, ev) == Append(acc, ev)

\* eventsByBaseId of syncGoogleToObsidian: one event per base id, in order of
\* first appearance; a later copy replaces the kept one only when it carries
\* recurrence rules and the kept one does not.
GroupStep(acc, ev) ==
  LET idx == { k \in 1..Len(acc) : BaseId(acc[k]) = BaseId(ev) }
  IN IF idx = {} THEN Append(acc, ev)
     ELSE LET k == CHOOSE k \in idx : TRUE
          IN IF ev.recurrence /\ ~acc[k].recurrence
             THEN [acc EXCEPT ![k] = ev] ELSE acc

RECURSIVE GroupFrom(_, _, _)
GroupFrom(events, n, acc) ==
  IF n > Len(events) THEN acc
  ELSE GroupFrom(events, n + 1, GroupStep(acc, events[n]))

eventsByBaseId(events) == GroupFrom(events, 1, <<>>)

\* dataFrame.records.filter(isCalendarEvent)
calendarRecords(frame) == SelectSeq(frame, LAMBDA r : isCalendarEvent(r.values))

\* recordsByEventId.get(baseId): the last record carrying the id, 0 for none
recordsByEventId(recs, b) ==
  LET idx == { k \in 1..Len(recs) : recs[k].values.eventId = b }
  IN IF idx = {} \/ b = NoId THEN 0
     ELSE CHOOSE k \in idx : \A j \in idx : j <= k

\* recordsByNoteName.has(name)
recordsByNoteName(recs, name) == \E k \in 1..Len(recs) : recs[k].id = name

\* The name tested by the duplicate guard of syncGoogleToObsidian.
GuardNoteName(ev) ==
  <<"dated",
    SanitizeTitle(IF ev.summary # "" THEN ev.summary ELSE UntitledEvent),
    ev.date, ShortId(ev.id)>>

\* The name createNoteFromGoogleEvent gives the note.
CreatedNoteName(ev) ==
  LET noteTitle == IF TrimTitle(ev.summary) # "" THEN TrimTitle(ev.summary)
                   ELSE UntitledEvent
      sanitized == SanitizeTitle(noteTitle)
      finalTitle == IF sanitized # "" THEN sanitized ELSE UntitledEvent
  IN IF ev.recurrence
     THEN <<"recurring", finalTitle, "", ShortId(BaseId(ev))>>
     ELSE <<"dated", finalTitle, ev.date, ShortId(ev.id)>>

\* A create-vs-update branch that creates an event for every record that
\* counts as modified, linked or not.
O2GKind_Recreate(v) ==
  IF ~shouldSyncToGoogle(v) THEN "skip"
  ELSE IF (v.eventId = NoId \/ isRecordModified(v)) /\ MapRecordOk(v)
       THEN "create" ELSE "skip"

\* The synchronous part of one iteration of syncObsidianToGoogle: "create" or
\* "update" when the iteration reaches a remote write, "skip" when it ends
\* without one (not to be synced, not modified, or the mapping throws).
O2GKind(v) ==
  IF ~shouldSyncToGoogle(v) THEN "skip"
  ELSE IF v.eventId # NoId
       THEN IF isRecordModified(v) /\ MapRecordOk(v) THEN "update" ELSE "skip"
       ELSE IF MapRecordOk(v) THEN "create" ELSE "skip"

\* A loop that also updates on equal timestamps.
G2OKind_NotStrict(recs, ev) ==
  LET k == recordsByEventId(recs, BaseId(ev))
  IN IF k # 0
     THEN IF ev.updated >= recs[k].values.lastSync /\ MapEventOk(ev)
          THEN "update" ELSE "skip"
     ELSE IF ~recordsByNoteName(recs, GuardNoteName(ev)) /\ MapEventOk(ev)
          THEN "create" ELSE "skip"

\* The synchronous part of one iteration of the loop of syncGoogleToObsidian:
\* "update" or "create" when it reaches a record-store write.
G2OKind(recs, ev) ==
  LET k == recordsByEventId(recs, BaseId(ev))
  IN IF k # 0
     THEN IF ev.updated > recs[k].values.lastSync /\ MapEventOk(ev)
          THEN "update" ELSE "skip"
     ELSE IF ~recordsByNoteName(recs, GuardNoteName(ev)) /\ MapEventOk(ev)
          THEN "create" ELSE "skip"

Logged(pass, entry) == [pass EXCEPT !.log = Append(@, entry)]

\* The catch block of performSync: the error is normalised and re-raised.
Thrown(pass, err) ==
  [pass EXCEPT !.pc = "thrown",
               !.result = [NoResult EXCEPT !.status = "error",
                                            !.error = fromError(err)]]

FirstFrom(S, i) ==
  IF \E k \in S : k >= i
  THEN CHOOSE k \in S : k >= i /\ \A j \in S : j >= i => k <= j
  ELSE 0

\* Runs a pass from iteration i of syncGoogleToObsidian to its next await.
ResumeG2O(pass, i) ==
  LET k == FirstFrom({ j \in 1..Len(pass.groups) :
                         G2OKind(pass.records, pass.groups[j]) # "skip" }, i)
  IN IF k # 0 THEN [pass EXCEPT !.pc = "noteWrite", !.i = k]
     ELSE [pass EXCEPT !.pc = "returned", !.i = 0]

\* Runs a pass from iteration i of syncObsidianToGoogle to its next await.
ResumeO2G(pass, i) ==
  LET k == FirstFrom({ j \in 1..Len(pass.records) :
                         O2GKind(pass.records[j].values) # "skip" }, i)
  IN IF k # 0 THEN [pass EXCEPT !.pc = "remoteWrite", !.i = k]
     ELSE ResumeG2O(pass, 1)

\* A loop of syncObsidianToGoogle whose catch block re-raises.
CatchO2G_Abort(pass, entry) == Thrown(Logged(pass, entry), "UNKNOWN_ERROR")

\* A catch block that tries the same record again.
CatchO2G_Retry(pass, entry) == ResumeO2G(Logged(pass, entry), pass.i)

\* The catch blocks of the two loops: the error is logged and the loop goes
\* on with the next record or event.
CatchO2G(pass, entry) == ResumeO2G(Logged(pass, entry), pass.i + 1)

CatchG2O(pass, entry) == ResumeG2O(Logged(pass, entry), pass.i + 1)

\* updateRecordSyncMetadata that stamps the record but drops the event id.
SyncMetadata_NoId(v, eventId, cal, t) ==
  [v EXCEPT !.calId = cal, !.sync = "true", !.lastSync = t, !.dirty = FALSE]

\* updateRecordSyncMetadata: the record as read at the start of the pass with
\* the four sync fields replaced.
SyncMetadata(v, eventId, cal, t) ==
  [v EXCEPT !.eventId = eventId, !.calId = cal, !.sync = "true",
            !.lastSync = t, !.dirty = FALSE]

\* updateNoteFromGoogleEvent: the mapped fields merged over the record.
MergedValues(v, ev, cal, t) ==
  LET fm == mapGoogleEventToFrontmatter(ev, t)
  IN [v EXCEPT !.eventId = fm.eventId, !.sync = fm.sync,
               !.lastSync = fm.lastSync, !.timing = fm.timing,
               !.date = fm.date,
               !.recurring = IF fm.recurring THEN TRUE ELSE @,
               !.calId = cal, !.dirty = FALSE]

\* The record createNoteFromGoogleEvent hands to createNote.
NewNote(ev, cal, t) ==
  LET fm == mapGoogleEventToFrontmatter(ev, t)
  IN [id |-> CreatedNoteName(ev),
      values |-> [eventId |-> fm.eventId, calId |-> cal, sync |-> fm.sync,
                  lastSync |-> fm.lastSync, timing |-> fm.timing,
                  title |-> "", date |-> fm.date, recurring |-> fm.recurring,
                  dirty |-> FALSE]]

\* ------------------------------------------------------------- record store
IndexOf(s, id) ==
  IF \E k \in 1..Len(s) : s[k].id = id
  THEN CHOOSE k \in 1..Len(s) : s[k].id = id ELSE 0

\* DataApi.updateRecord: rewrites the frontmatter of the note; fails when the
\* note no longer exists.
updateRecord(s, id, v) == [s EXCEPT ![IndexOf(s, id)].values = v]

\* DataApi.createNote: fails when a note of that name exists.
createNote(s, rec) == Append(s, rec)

\* ------------------------------------------------------------------ manager
InFlight(p) == passes[p].pc \in {"fetch", "remoteWrite", "recordWrite", "noteWrite"}

\* A finished pass stays visible for one step: the state in which its call has
\* returned or thrown.
Live == [q \in 1..MaxPasses |-> IF InFlight(q) THEN passes[q] ELSE NoPass]

\* Engine objects no suspended pass refers to; a rebuilt engine takes the
\* lowest such slot.
FreeEngines == { e \in 1..MaxEngines :
                   \A p \in 1..MaxPasses : InFlight(p) => passes[p].eng # e }

\* An engine object that neither the manager nor a pass refers to is garbage:
\* its slot reads as a fresh engine.
Collected(engs, cur, ps) ==
  [e \in 1..MaxEngines |->
     IF e = cur \/ \E q \in 1..MaxPasses : ps[q].pc # "idle" /\ ps[q].eng = e
     THEN engs[e] ELSE NewEngine(defaultConfig)]

BuildsEngine(cfg) == cfg.enabled /\ cfg.credentials # ""

\* startAutoSync: the interval the timer is armed with
startAutoSync(intervalMinutes) ==
  IF intervalMinutes = 0 \/ intervalMinutes < MinSyncInterval
     \/ intervalMinutes > MaxSyncInterval
  THEN DefaultSyncInterval ELSE intervalMinutes

Manager(eng, timer, engs) ==
  [syncEngine |-> eng, syncInterval |-> timer, engines |-> engs]

\* handleConfigChange: stops the timer, drops the engine, and builds a new
\* engine (and timer) when the configuration is enabled and has credentials.
handleConfigChange(cfg, engs) ==
  IF BuildsEngine(cfg) /\ FreeEngines # {}
  THEN LET e == CHOOSE e \in FreeEngines : \A f \in FreeEngines : e <= f
       IN Manager(e,
                  IF cfg.autoSync /\ cfg.syncInterval # 0
                  THEN startAutoSync(cfg.syncInterval) ELSE 0,
                  [engs EXCEPT ![e] = NewEngine(cfg)])
  ELSE Manager(0, 0, engs)

CanHandle(cfg) == BuildsEngine(cfg) => FreeEngines # {}

\* The onTokenRefresh callback given to the API client: stores the new access
\* token in the configuration store, whose subscriber is handleConfigChange.
onTokenRefresh(engs) == handleConfigChange(config, engs)

\* The manager after a remote call with outcome out.
AfterCall(out) ==
  IF out.refreshed THEN onTokenRefresh(engines)
  ELSE Manager(syncEngine, syncInterval, engines)

\* GoogleCalendarSyncEngine.getSyncStatus
getSyncStatus(engine) ==
  [isActive |-> engine.syncInProgress, lastSync |-> engine.lastSync,
   pendingChanges |-> Cardinality(engine.conflicts)]

\* performSync without its finally block.
Finally_Skip(engs, e) == engs

\* The finally block of performSync.
Finally(engs, e) == [engs EXCEPT ![e].syncInProgress = FALSE]

\* Commits one step of pass p: np is the pass at its next await (or finished),
\* m the manager after the callbacks of the step.  A finished pass clears the
\* running flag of its engine (finally), a returned one first records lastSync
\* on the configuration object of its engine.
Commit(p, np, m) ==
  \E nv \in {np}, mv \in {m} :
    LET e == nv.eng
        engs == IF nv.pc = "returned"
                THEN Finally([mv.engines EXCEPT ![e].lastSync = now], e)
                ELSE IF nv.pc = "thrown"
                THEN Finally(mv.engines, e)
                ELSE mv.engines
        res == IF nv.pc = "returned"
               THEN [status |-> "ok", error |-> "none",
                     obsidianToGoogle |-> nv.o2g, googleToObsidian |-> nv.g2o,
                     conflicts |-> engs[e].conflicts]
               ELSE nv.result
        np2 == [nv EXCEPT !.result = res, !.stamp = now]
    IN /\ passes' = [Live EXCEPT ![p] = np2]
       /\ engines' = Collected(engs, mv.syncEngine, [Live EXCEPT ![p] = np2])
       /\ syncEngine' = mv.syncEngine
       /\ syncInterval' = mv.syncInterval
       /\ config' = IF nv.pc = "returned" /\ e = mv.syncEngine
                    THEN [config EXCEPT !.lastSync = now] ELSE config
       /\ lastCall' = NoCall

\* The syncStatus store as the stores module creates it.
defaultSyncStatus == [isActive |-> FALSE, lastSync |-> 0, lastError |-> "none"]

Settled(origin, how, error, notices) ==
  [origin |-> origin, how |-> how, error |-> error, notices |-> notices]

NoRecord == [id |-> <<>>, eventId |-> NoId, isVirtual |-> FALSE]

NoUi ==
  [callers |-> [p \in 1..MaxPasses |-> "none"], deleting |-> NoRecord,
   settled |-> Settled("none", "none", "none", {})]

\* ---------------------------------------------------- recurrence expander
\* Dates are whole days, numbered from 1 January of EpochYear (a Sunday), so
\* that n % 7 is the day of the week as dayjs counts it (0 = Sunday).
EpochYear == 2023

MaxOccurrences == 365

LeapsBefore(y) == ((y - 1) \div 4) - ((y - 1) \div 100) + ((y - 1) \div 400)

YearStart(y) == 365 * (y - EpochYear) + LeapsBefore(y) - LeapsBefore(EpochYear)

daysInMonth(y, m) ==
  IF m = 2 THEN 28 + (YearStart(y + 1) - YearStart(y) - 365)
  ELSE IF m \in {4, 6, 9, 11} THEN 30 ELSE 31

\* The day number of year y, month m (1..12), day d; d outside the month
\* overflows into the neighbouring months as Date.setDate does.
DateOf(y, m, d) ==
  LET before == <<0, 31, 59, 90, 120, 151, 181, 212, 243, 273, 304, 334>>
  IN YearStart(y) + before[m] + (IF m > 2 THEN daysInMonth(y, 2) - 28 ELSE 0)
       + d - 1

\* year(), month() + 1 and date() of a day number.
Civil(n) ==
  LET y == CHOOSE yy \in (EpochYear + (n \div 366) - 1)..(EpochYear + (n \div 365) + 1) :
             YearStart(yy) <= n /\ n < YearStart(yy + 1)
      m == CHOOSE mm \in 1..12 :
             DateOf(y, mm, 1) <= n /\ n < DateOf(y, mm, 1) + daysInMonth(y, mm)
  IN [year |-> y, month |-> m, date |-> n - DateOf(y, m, 1) + 1]

\* add(k, 'month'): the day of the month is clamped to the length of the
\* month reached; add(k, 'year') is add(12 * k, 'month').
AddMonth(n, k) ==
  LET c == Civil(n)
      t == c.year * 12 + (c.month - 1) + k
      y == t \div 12
      m == (t % 12) + 1
  IN DateOf(y, m, Min(c.date, daysInMonth(y, m)))

\* date(d): the d-th day of the month of n.
SetDate(n, d) == LET c == Civil(n) IN DateOf(c.year, c.month, d)

\* A parsed rule (ruleMap): count and until are <<>> when the key is absent,
\* the lists are empty when their key is absent.
Rule(freq, interval, count, byDay, byMonthDay, byMonth) ==
  [freq |-> freq, interval |-> interval, count |-> count, until |-> <<>>,
   byDay |-> byDay, byMonthDay |-> byMonthDay, byMonth |-> byMonth]

dayMap == [SU |-> 0, MO |-> 1, TU |-> 2, WE |-> 3, TH |-> 4, FR |-> 5, SA |-> 6]

\* The first element of a sequence that satisfies a test, as Array.find.
RECURSIVE Find(_, _)
Find(seq, above) ==
  IF seq = <<>> THEN <<>>
  ELSE IF Head(seq) > above THEN <<Head(seq)>> ELSE Find(Tail(seq), above)

RECURSIVE Sorted(_)
Sorted(set) ==
  IF set = {} THEN <<>>
  ELSE LET least == CHOOSE x \in set : \A z \in set : x <= z
       IN <<least>> \o Sorted(set \ {least})

\* A step to the first listed weekday of the very next week.
getNextWeeklyOccurrence_NextWeek(current, interval, byDay) ==
  LET targetDays == Sorted({ dayMap[byDay[i]] :
                             i \in { j \in 1..Len(byDay) :
                                       byDay[j] \in DOMAIN dayMap } })
      currentDay == current % 7
      nextDay == Find(targetDays, currentDay)
  IN IF targetDays = <<>> THEN current + 7 * interval
     ELSE IF nextDay # <<>> THEN current - currentDay + nextDay[1]
     ELSE (current + 7) - ((current + 7) % 7) + targetDays[1]

getNextWeeklyOccurrence(current, interval, byDay) ==
  LET targetDays == Sorted({ dayMap[byDay[i]] :
                             i \in { j \in 1..Len(byDay) :
                                       byDay[j] \in DOMAIN dayMap } })
      currentDay == current % 7
      nextDay == Find(targetDays, currentDay)
  IN IF targetDays = <<>> THEN current + 7 * interval
     ELSE IF nextDay # <<>> THEN current - currentDay + nextDay[1]
     ELSE (current + 7 * interval) - ((current + 7 * interval) % 7)
            + targetDays[1]

getNextMonthlyOccurrence(current, interval, byMonthDay) ==
  LET c == Civil(current)
      nextDay == Find(byMonthDay, c.date)
      nextMonth == AddMonth(current, interval)
      n == Civil(nextMonth)
  IN IF nextDay # <<>> /\ nextDay[1] <= daysInMonth(c.year, c.month)
     THEN SetDate(current, nextDay[1])
     ELSE SetDate(nextMonth,
                  Min(byMonthDay[1], daysInMonth(n.year, n.month)))

\* The switch on FREQ: the next candidate date; an unknown frequency leaves
\* current where it is (its break leaves the switch, not the loop).
NextCandidate(rule, current) ==
  CASE rule.freq = "DAILY" -> current + rule.interval
    [] rule.freq = "WEEKLY" ->
         IF rule.byDay # <<>>
         THEN getNextWeeklyOccurrence(current, rule.interval, rule.byDay)
         ELSE current + 7 * rule.interval
    [] rule.freq = "MONTHLY" ->
         IF rule.byMonthDay # <<>>
         THEN getNextMonthlyOccurrence(current, rule.interval, rule.byMonthDay)
         ELSE AddMonth(current, rule.interval)
    [] rule.freq = "YEARLY" -> AddMonth(current, 12 * rule.interval)
    [] OTHER -> current

\* count || 365: an absent count and a count of zero are both falsy.
Truthy(opt) == opt # <<>> /\ opt[1] # 0

maxOccurrences(rule) ==
  IF Truthy(rule.count) THEN rule.count[1] ELSE MaxOccurrences

\* isAfter(viewStart - 1 day) and isBefore(viewEnd + 1 day).
InView(d, viewStart, viewEnd) == d > viewStart - 1 /\ d < viewEnd + 1

NoExpansion ==
  [pc |-> "idle", rule |-> Rule("", 1, <<>>, <<>>, <<>>, <<>>),
   startDate |-> 0, viewStart |-> 0, viewEnd |-> 0, current |-> 0,
   occurrenceCount |-> 0, occurrences |-> <<>>]

\* parseRecurrenceRule has been called with these arguments.
Called(rule, startDate, viewStart, viewEnd) ==
  [NoExpansion EXCEPT !.pc = "called", !.rule = rule,
                      !.startDate = startDate, !.viewStart = viewStart,
                      !.viewEnd = viewEnd]

\* A loop whose COUNT and iteration limit count the dates pushed.
Continues_CountsEmitted(x) ==
  /\ Len(x.occurrences) < maxOccurrences(x.rule)
  /\ x.current < AddMonth(x.viewEnd, 12)
  /\ ~(x.rule.until # <<>> /\ x.current > x.rule.until[1])
  /\ ~(Truthy(x.rule.count) /\ Len(x.occurrences) >= x.rule.count[1])

\* The loop condition and the two breaks at the top of the body.
Continues(x) ==
  /\ x.occurrenceCount < maxOccurrences(x.rule)
  /\ x.current < AddMonth(x.viewEnd, 12)
  /\ ~(x.rule.until # <<>> /\ x.current > x.rule.until[1])
  /\ ~(Truthy(x.rule.count) /\ x.occurrenceCount >= x.rule.count[1])

\* Whether the candidate date is pushed.
Included(rule, d, viewStart, viewEnd) ==
  /\ rule.byMonth = <<>>
       \/ \E i \in 1..Len(rule.byMonth) : rule.byMonth[i] = Civil(d).month
  /\ InView(d, viewStart, viewEnd)

\* parseRecurrenceRule as a function of its arguments: the loop run to its
\* end, and the dates returned.
RECURSIVE Loop(_)
Loop(x) ==
  IF Continues(x)
  THEN LET d == NextCandidate(x.rule, x.current)
       IN Loop([x EXCEPT !.current = d,
                         !.occurrences =
                            IF Included(x.rule, d, x.viewStart, x.viewEnd)
                            THEN Append(@, d) ELSE @,
                         !.occurrenceCount = @ + 1])
  ELSE x.occurrences

parseRecurrenceRule(rule, startDate, viewStart, viewEnd) ==
  Loop([Called(rule, startDate, viewStart, viewEnd) EXCEPT
          !.pc = "loop",
          !.current = startDate,
          !.occurrences = IF InView(startDate, viewStart, viewEnd)
                          THEN <<startDate>> ELSE <<>>,
          !.occurrenceCount = 1])

\* Before the loop: the start date is pushed when it is in the view, and is
\* counted either way.
ExpandBegin ==
  /\ expansion.pc = "called"
  /\ expansion' =
       [expansion EXCEPT
          !.pc = "loop",
          !.current = expansion.startDate,
          !.occurrences = IF InView(expansion.startDate, expansion.viewStart,
                                    expansion.viewEnd)
                          THEN <<expansion.startDate>> ELSE <<>>,
          !.occurrenceCount = 1]
  /\ UNCHANGED <<syncVars, api, syncStatus, ui, lifecycle, mapping>>

\* One turn of the loop.
ExpandStep ==
  /\ expansion.pc = "loop"
  /\ Continues(expansion)
  /\ LET d == NextCandidate(expansion.rule, expansion.current)
     IN expansion' =
          [expansion EXCEPT
             !.current = d,
             !.occurrences = IF Included(expansion.rule, d,
                                         expansion.viewStart,
                                         expansion.viewEnd)
                             THEN Append(@, d) ELSE @,
             !.occurrenceCount = @ + 1]
  /\ UNCHANGED <<syncVars, api, syncStatus, ui, lifecycle, mapping>>

\* The loop is left and occurrences is returned.
ExpandReturn ==
  /\ expansion.pc = "loop"
  /\ ~Continues(expansion)
  /\ expansion' = [expansion EXCEPT !.pc = "returned"]
  /\ UNCHANGED <<syncVars, api, syncStatus, ui, lifecycle, mapping>>

\* ------------------------------------------------------ event timing
\* An instant is a number of minutes; the start and end of a timed event
\* (dateTime) are instants of UTC, those of an all-day event (date) are day
\* numbers.  tz is the offset of the local time zone in minutes.
TimedEvent(start, end) == [allDay |-> FALSE, start |-> start, end |-> end]

AllDayEvent(start, end) == [allDay |-> TRUE, start |-> start, end |-> end]

\* dayjs(s) of an ISO string: the local day and minute of the day.
Local(utc, tz) ==
  [day |-> (utc + tz) \div 1440, minute |-> (utc + tz) % 1440]

toISOString(local, tz) == local.day * 1440 + local.minute - tz

\* The timing fields of a record; <<>> is a field that is absent or empty.
\* start-date and end-date hold ISO strings, due-date a local day and
\* minute, start-time and end-time a minute of the day (HH:mm).
Fields(startDate, endDate, dueDate, startTime, endTime) ==
  [startDate |-> startDate, endDate |-> endDate, dueDate |-> dueDate,
   startTime |-> startTime, endTime |-> endTime]

\* The timing part of mapGoogleEventToFrontmatter.
TimingFields(ev, tz) ==
  IF ev.allDay
  THEN Fields(<<>>, <<>>, <<[day |-> ev.start, minute |-> 0]>>, <<>>, <<>>)
  ELSE LET startTime == Local(ev.start, tz)
           endTime == Local(ev.end, tz)
       IN Fields(<<toISOString(startTime, tz)>>, <<toISOString(endTime, tz)>>,
                 <<[day |-> startTime.day, minute |-> 0]>>,
                 <<startTime.minute>>, <<endTime.minute>>)

\* What mapRecordToGoogleEvent gives: an event, or the error it throws.
Mapped(ev) == [thrown |-> "none", message |-> "", event |-> ev]

MapThrows(type, message) ==
  [thrown |-> type, message |-> message, event |-> AllDayEvent(0, 0)]

\* The timing part of mapRecordToGoogleEvent.
EventTiming(f, tz) ==
  IF f.startDate # <<>> /\ f.endDate # <<>>
  THEN LET start == Local(f.startDate[1], tz)
           end == Local(f.endDate[1], tz)
       IN IF start.minute # 0 \/ end.minute # 0
          THEN Mapped(TimedEvent(toISOString(start, tz), toISOString(end, tz)))
          ELSE Mapped(AllDayEvent(start.day, end.day + 1))
  ELSE IF f.dueDate # <<>> /\ f.startTime # <<>> /\ f.endTime # <<>>
  THEN LET dueDay == f.dueDate[1]
           start == [dueDay EXCEPT !.minute = f.startTime[1]]
           end == [dueDay EXCEPT !.minute = f.endTime[1]]
       IN Mapped(TimedEvent(toISOString(start, tz), toISOString(end, tz)))
  ELSE IF f.dueDate # <<>>
  THEN LET due == f.dueDate[1]
       IN IF due.minute # 0
          THEN Mapped(TimedEvent(toISOString(due, tz),
                                 toISOString(due, tz) + 60))
          ELSE Mapped(AllDayEvent(due.day, due.day + 1))
  ELSE MapThrows("Error", "No valid date information found in record")

NoMapping ==
  [pc |-> "idle", tz |-> 0, event |-> AllDayEvent(0, 0),
   fields |-> Fields(<<>>, <<>>, <<>>, <<>>, <<>>),
   back |-> MapThrows("none", "")]

\* mapGoogleEventToFrontmatter(event).
MapEvent ==
  /\ mapping.pc = "event"
  /\ mapping' = [mapping EXCEPT !.pc = "fields",
                                !.fields = TimingFields(mapping.event,
                                                        mapping.tz)]
  /\ UNCHANGED <<syncVars, api, syncStatus, ui, lifecycle, expansion>>

\* { ...record.values, ...updatedFrontmatter }: the fields of the new
\* frontmatter replace those of the record, the fields it does not have stay
\* as they are in the record.
MergedFields(values, updatedFrontmatter) ==
  [k \in DOMAIN values |->
     IF updatedFrontmatter[k] # <<>> THEN updatedFrontmatter[k] ELSE values[k]]

\* updateNoteFromGoogleEvent(record, googleEvent), on the record that
\* mapGoogleEventToFrontmatter produced from the event as it was at the
\* previous sync.
UpdateNote(googleEvent) ==
  /\ mapping.pc = "fields"
  /\ mapping' = [mapping EXCEPT
                   !.pc = "updated",
                   !.event = googleEvent,
                   !.fields = MergedFields(mapping.fields,
                                           TimingFields(googleEvent,
                                                        mapping.tz))]
  /\ UNCHANGED <<syncVars, api, syncStatus, ui, lifecycle, expansion>>

\* mapRecordToGoogleEvent(record), on a record of the vault, on the fields
\* mapGoogleEventToFrontmatter has just produced, or on a record that
\* updateNoteFromGoogleEvent has stored.
MapRecord ==
  /\ mapping.pc \in {"record", "fields", "updated"}
  /\ mapping' = [mapping EXCEPT
                   !.pc = CASE mapping.pc = "record" -> "mapped"
                            [] mapping.pc = "fields" -> "back"
                            [] OTHER -> "reread",
                   !.back = EventTiming(mapping.fields, mapping.tz)]
  /\ UNCHANGED <<syncVars, api, syncStatus, ui, lifecycle, expansion>>

\* ------------------------------------------------------------------- Init
\* The manager subscribes to the configuration store on construction, which
\* runs handleConfigChange on the stored configuration.
InitSync(world, cfg) ==
  /\ now = 1
  /\ store = world.store
  /\ remote = world.remote
  /\ created = 0
  /\ config = cfg
  /\ passes = [p \in 1..MaxPasses |-> NoPass]
  /\ LET m == handleConfigChange(cfg, [e \in 1..MaxEngines |->
                                         NewEngine(defaultConfig)])
     IN syncEngine = m.syncEngine /\ syncInterval = m.syncInterval
        /\ engines = m.engines
  /\ started = 0
  /\ lastCall = NoCall
  /\ api = NewApi(TRUE)
  /\ syncStatus = defaultSyncStatus
  /\ ui = NoUi
  /\ lifecycle = [armed |-> IF syncInterval # 0 THEN 1 ELSE 0,
                  destroyed |-> FALSE]

\* No recurrence rule is being expanded while the manager runs.
InitWith(world, cfg) ==
  InitSync(world, cfg) /\ expansion = NoExpansion /\ mapping = NoMapping

\* A configured plugin over one of the initial vaults.
Init ==
  \E w \in InitialWorlds :
    \E cfg \in {Config(TRUE, "cal", TRUE), Config(TRUE, " ", FALSE)} :
      InitWith(w, cfg)

\* A freshly installed plugin: the default configuration, no engine.
InitManager == InitWith(SmallWorld, defaultConfig)

\* ------------------------------------------------------------ environment
\* The user edits the frontmatter of a note that has been synchronised (an
\* edit of a note that never was has nothing to be later than).
UserEdit(k) ==
  /\ k \in 1..Len(store)
  /\ store[k].values.eventId # NoId
  /\ store[k].values.lastSync # 0
  /\ ~store[k].values.dirty
  /\ store' = [store EXCEPT ![k].values.dirty = TRUE]
  /\ lastCall' = NoCall
  /\ passes' = Live
  /\ engines' = Collected(engines, syncEngine, Live)
  /\ UNCHANGED <<now, remote, created, config, syncEngine, syncInterval,
                 started>>

\* An event some synchronised note is linked to is edited in Google Calendar,
\* at a later time than anything that happened before: the clock of the model
\* advances with the edits.
RemoteEdit(ev) ==
  /\ ev \in remote
  /\ \E k \in 1..Len(store) : /\ store[k].values.eventId = BaseId(ev)
                              /\ store[k].values.lastSync # 0
  /\ now < MaxTime
  /\ now' = now + 1
  /\ remote' = (remote \ {ev}) \cup {[ev EXCEPT !.updated = now + 1]}
  /\ lastCall' = NoCall
  /\ passes' = Live
  /\ engines' = Collected(engines, syncEngine, Live)
  /\ UNCHANGED <<store, created, config, syncEngine, syncInterval, started>>

\* googleCalendarConfig.set / updateConfig from the settings UI; the manager's
\* subscription runs handleConfigChange.
SetConfig(c) ==
  LET cfg == [c EXCEPT !.lastSync = config.lastSync]
      m == handleConfigChange(cfg, engines)
  IN /\ CanHandle(cfg)
     /\ config' = cfg
     /\ syncEngine' = m.syncEngine
     /\ syncInterval' = m.syncInterval
     /\ engines' = Collected(m.engines, m.syncEngine, Live)
     /\ lastCall' = NoCall
     /\ passes' = Live
     /\ UNCHANGED <<now, store, remote, created, started>>

\* ----------------------------------------------------- engine.performSync
\* performSync without the running-flag guard.
performSyncEntry_NoGuard(engine, cal, frameOk) ==
  IF TrimCalendarId(cal) = "" THEN "INVALID_CONFIGURATION"
  ELSE IF ~frameOk THEN "VALIDATION_ERROR"
  ELSE "accepted"

\* performSync testing the calendar id without trimming it.
performSyncEntry_NoTrim(engine, cal, frameOk) ==
  IF cal = "" THEN "INVALID_CONFIGURATION"
  ELSE IF ~frameOk THEN "VALIDATION_ERROR"
  ELSE IF engine.syncInProgress THEN "SYNC_IN_PROGRESS"
  ELSE "accepted"

\* The part of performSync before its first await: validation and the
\* running-flag guard.
performSyncEntry(engine, cal, frameOk) ==
  IF TrimCalendarId(cal) = "" THEN "INVALID_CONFIGURATION"
  ELSE IF ~frameOk THEN "VALIDATION_ERROR"
  ELSE IF engine.syncInProgress THEN "SYNC_IN_PROGRESS"
  ELSE "accepted"

FreeSlots == { p \in 1..MaxPasses : ~InFlight(p) }

\* An accepted call: the flag is set, the conflicts are cleared and getEvents
\* is awaited.
Begin(cal, frame) ==
  LET p == CHOOSE p \in FreeSlots : \A q \in FreeSlots : p <= q
  IN /\ FreeSlots # {}
     /\ started < MaxStarts
     /\ started' = started + 1
     /\ engines' = Collected([engines EXCEPT
                                  ![syncEngine].syncInProgress = TRUE,
                                  ![syncEngine].conflicts = {}],
                              syncEngine, Live)
     /\ passes' = [q \in 1..MaxPasses |->
                     IF q = p
                     THEN [NoPass EXCEPT !.pc = "fetch", !.eng = syncEngine,
                                         !.calendarId = cal, !.frame = frame,
                                         !.stamp = now, !.begun = now]
                     ELSE Live[q]]

\* this.syncEngine.performSync(cal, frame) called by the manager
EngineCall(origin, cal, frameOk, frame) ==
  LET r == performSyncEntry(engines[syncEngine], cal, frameOk)
  IN /\ lastCall' = Call(origin, syncEngine, "engine", cal, frameOk, r)
     /\ IF r = "accepted"
        THEN Begin(cal, frame)
        ELSE /\ passes' = Live
             /\ engines' = Collected(engines, syncEngine, Live)
             /\ UNCHANGED started

\* GoogleCalendarSyncManager.performSync
ManagerPerformSync(origin, frameOk) ==
  /\ UNCHANGED <<now, store, remote, created, config, syncEngine,
                 syncInterval>>
  /\ IF syncEngine = 0 THEN
       /\ lastCall' = Call(origin, 0, "manager", config.calendarId, frameOk,
                           "INVALID_CONFIGURATION")
       /\ passes' = Live
       /\ engines' = Collected(engines, syncEngine, Live)
       /\ UNCHANGED started
     ELSE IF getSyncStatus(engines[syncEngine]).isActive THEN
       /\ lastCall' = Call(origin, syncEngine, "manager", config.calendarId,
                           frameOk, "SYNC_IN_PROGRESS")
       /\ passes' = Live
       /\ engines' = Collected(engines, syncEngine, Live)
       /\ UNCHANGED started
     ELSE IF config.calendarId = "" THEN
       /\ lastCall' = Call(origin, syncEngine, "manager", config.calendarId,
                           frameOk, "INVALID_CONFIGURATION")
       /\ passes' = Live
       /\ engines' = Collected(engines, syncEngine, Live)
       /\ UNCHANGED started
     ELSE EngineCall(origin, config.calendarId, frameOk, store)

\* The callback of the periodic timer armed by startAutoSync.
AutoSyncTick(frameOk) ==
  /\ syncInterval # 0
  /\ IF syncEngine # 0 /\ ~getSyncStatus(engines[syncEngine]).isActive
     THEN ManagerPerformSync("tick", frameOk)
     ELSE /\ lastCall' = Call("tick", syncEngine, "manager",
                              config.calendarId, frameOk, "skipped")
          /\ passes' = Live
          /\ engines' = Collected(engines, syncEngine, Live)
          /\ UNCHANGED <<now, store, remote, created, config, syncEngine,
                         syncInterval, started>>

\* onRecordUpdate(record) -> syncRecord(record) for the k-th note
SyncRecord(k) ==
  /\ k \in 1..Len(store)
  /\ UNCHANGED <<now, store, remote, created, config, syncEngine,
                 syncInterval>>
  /\ IF syncEngine = 0 \/ ~isCalendarEvent(store[k].values) THEN
       /\ lastCall' = Call("record", syncEngine, "manager",
                           config.calendarId, TRUE, "noop")
       /\ passes' = Live
       /\ engines' = Collected(engines, syncEngine, Live)
       /\ UNCHANGED started
     ELSE IF config.calendarId = "" THEN
       /\ lastCall' = Call("record", syncEngine, "manager",
                           config.calendarId, TRUE, "INVALID_CONFIGURATION")
       /\ passes' = Live
       /\ engines' = Collected(engines, syncEngine, Live)
       /\ UNCHANGED started
     ELSE EngineCall("record", config.calendarId, TRUE, <<store[k]>>)

\* GoogleCalendarSyncManager.performManualSync
PerformManualSync(frameOk) ==
  /\ UNCHANGED <<now, store, remote, created, config, syncEngine,
                 syncInterval>>
  /\ IF syncEngine = 0 \/ config.calendarId = "" THEN
       /\ lastCall' = Call("manualSync", syncEngine, "manager",
                           config.calendarId, frameOk, "notConfigured")
       /\ passes' = Live
       /\ engines' = Collected(engines, syncEngine, Live)
       /\ UNCHANGED started
     ELSE EngineCall("manualSync", config.calendarId, frameOk, store)

\* ------------------------------------------------------- steps of a pass
Current == Manager(syncEngine, syncInterval, engines)

\* The pass after getEvents has answered: the locals calendarRecords and
\* eventsByBaseId are computed once, from the record set the pass was called
\* with and the events it fetched.
Fetched(pass, evs) ==
  [pass EXCEPT !.events = evs, !.records = calendarRecords(pass.frame),
               !.groups = eventsByBaseId(evs)]

\* getEvents answers: the pass goes on to syncObsidianToGoogle, or the error
\* is normalised and re-raised.
FetchDone(p, outcomes) ==
  /\ passes[p].pc = "fetch"
  /\ \E out \in outcomes :
       /\ out.refreshed => CanHandle(config)
       /\ IF out.ok
          THEN \E evs \in getEvents(remote) :
                 Commit(p, ResumeO2G(Fetched(passes[p], evs), 1),
                        AfterCall(out))
          ELSE Commit(p, Thrown(passes[p], out.error), AfterCall(out))
  /\ UNCHANGED <<now, store, remote, created, started>>

\* createEvent / updateEvent for the record of iteration i answers.
RemoteWrite(p, outcomes) ==
  LET pass == passes[p]
      r == pass.records[pass.i]
      kind == O2GKind(r.values)
  IN /\ pass.pc = "remoteWrite"
     /\ \E out \in outcomes :
          /\ out.refreshed => CanHandle(config)
          /\ IF kind = "create" THEN
               IF out.ok THEN
                 LET id == CreatedId(created + 1)
                     body == mapRecordToGoogleEvent(r.values)
                     ev == [id |-> id, summary |-> body.summary,
                            date |-> body.date, allDay |-> body.allDay,
                            recurrence |-> FALSE, recurringEventId |-> NoId,
                            dateOk |-> TRUE, updated |-> now]
                 IN /\ created < MaxCreated
                    /\ remote' = remote \cup {ev}
                    /\ created' = created + 1
                    /\ Commit(p, [Logged(pass, LogEntry("createEvent", r.id, id, TRUE))
                                    EXCEPT !.pc = "recordWrite", !.pending = id],
                              AfterCall(out))
               ELSE /\ UNCHANGED <<remote, created>>
                    /\ Commit(p, CatchO2G(pass, LogEntry("createEvent", r.id,
                                                          NoId, FALSE)),
                              AfterCall(out))
             ELSE
               LET id == r.values.eventId
                   body == mapRecordToGoogleEvent(r.values)
                   old == { ev \in remote : ev.id = id }
               IN IF out.ok /\ old # {} THEN
                    /\ remote' = (remote \ old) \cup
                         { [ev EXCEPT !.summary = body.summary,
                                      !.date = body.date,
                                      !.allDay = body.allDay,
                                      !.updated = now] : ev \in old }
                    /\ UNCHANGED created
                    /\ Commit(p, [Logged(pass, LogEntry("updateEvent", r.id, id, TRUE))
                                    EXCEPT !.pc = "recordWrite", !.pending = id],
                              AfterCall(out))
                  ELSE /\ UNCHANGED <<remote, created>>
                       /\ Commit(p, CatchO2G(pass, LogEntry("updateEvent", r.id,
                                                             id, FALSE)),
                                 AfterCall(out))
     /\ UNCHANGED <<now, store, started>>

\* updateRecord of updateRecordSyncMetadata answers.
RecordWrite(p, answers) ==
  LET pass == passes[p]
      r == pass.records[pass.i]
      next(ps) == ResumeO2G([ps EXCEPT !.pending = NoId], pass.i + 1)
  IN /\ pass.pc = "recordWrite"
     /\ \E ok \in answers :
          IF ok /\ IndexOf(store, r.id) # 0 THEN
            /\ store' = updateRecord(store, r.id,
                          SyncMetadata(r.values, pass.pending,
                                       pass.calendarId, pass.stamp))
            /\ Commit(p, next([Logged(pass, LogEntry("updateRecord", r.id,
                                                     pass.pending, TRUE))
                                 EXCEPT !.o2g = @ + 1]), Current)
          ELSE
            /\ UNCHANGED store
            /\ Commit(p, CatchO2G([pass EXCEPT !.pending = NoId],
                                   LogEntry("updateRecord", r.id, pass.pending,
                                            FALSE)),
                      Current)
     /\ UNCHANGED <<now, remote, created, started>>

\* updateRecord of updateNoteFromGoogleEvent or createNote of
\* createNoteFromGoogleEvent answers, for the event of iteration i.
NoteWrite(p, answers) ==
  LET pass == passes[p]
      recs == pass.records
      ev == pass.groups[pass.i]
      kind == G2OKind(recs, ev)
      next(ps) == ResumeG2O(ps, pass.i + 1)
  IN /\ pass.pc = "noteWrite"
     /\ \E ok \in answers :
          IF kind = "update" THEN
            LET r == recs[recordsByEventId(recs, BaseId(ev))]
            IN IF ok /\ IndexOf(store, r.id) # 0 THEN
                 /\ store' = updateRecord(store, r.id,
                               MergedValues(r.values, ev, pass.calendarId,
                                            pass.stamp))
                 /\ Commit(p, next([Logged(pass, LogEntry("updateNote", r.id,
                                                          MergedValues(r.values, ev,
                                                            pass.calendarId,
                                                            pass.stamp).eventId,
                                                          TRUE))
                                      EXCEPT !.g2o = @ + 1]), Current)
               ELSE
                 /\ UNCHANGED store
                 /\ Commit(p, CatchG2O(pass, LogEntry("updateNote", r.id,
                                                       BaseId(ev), FALSE)),
                           Current)
          ELSE
            LET note == NewNote(ev, pass.calendarId, pass.stamp)
            IN IF ok /\ IndexOf(store, note.id) = 0 THEN
                 /\ store' = createNote(store, note)
                 /\ Commit(p, next([Logged(pass, LogEntry("createNote", note.id,
                                                          note.values.eventId,
                                                          TRUE))
                                      EXCEPT !.g2o = @ + 1]), Current)
               ELSE
                 /\ UNCHANGED store
                 /\ Commit(p, CatchG2O(pass, LogEntry("createNote", note.id,
                                                       note.values.eventId,
                                                       FALSE)),
                           Current)
     /\ UNCHANGED <<now, remote, created, started>>

\* ------------------------------------------------- callers and status
\* The callback of the timer without its catch.
HowSettled_Rethrow(origin, e) ==
  IF e # "none" THEN "rejected" ELSE "resolved"

\* manager.performSync re-raises what it caught; the callback of the timer
\* catches it and only logs it.
HowSettled(origin, e) ==
  IF e # "none" /\ origin = "manual" THEN "rejected" ELSE "resolved"

\* The code after `await this.syncEngine.performSync(...)` in the caller of
\* origin, for a pass that ended with err ("none" when it returned): the
\* status store it leaves, how its own promise settles and what it shows.
\* eng is the engine the manager holds by then (0 for none).
AfterPass(origin, err, eng) ==
  LET failed == [syncStatus EXCEPT !.isActive = FALSE, !.lastError = err]
  IN CASE origin \in {"manual", "tick"} ->
            LET e == IF err # "none" THEN err
                     ELSE IF eng = 0 THEN "UNKNOWN_ERROR" ELSE "none"
                st == IF e # "none"
                      THEN [syncStatus EXCEPT !.isActive = FALSE,
                                              !.lastError = e]
                      ELSE [syncStatus EXCEPT
                              !.isActive = getSyncStatus(engines'[eng]).isActive,
                              !.lastSync = getSyncStatus(engines'[eng]).lastSync]
            IN [status |-> st,
                settled |-> Settled(origin, HowSettled(origin, e), e, {})]
       [] origin = "record" ->
            [status |-> syncStatus,
             settled |-> Settled(origin, "resolved", err,
                                 IF err # "none"
                                 THEN {"Failed to sync calendar event"}
                                 ELSE {})]
       [] OTHER ->
            [status |-> IF err # "none" THEN failed
                        ELSE [syncStatus EXCEPT !.isActive = FALSE,
                                                !.lastSync = now],
             settled |-> Settled(origin, "resolved", err,
                                 IF err # "none"
                                 THEN {"Google Calendar sync failed"}
                                 ELSE {"Google Calendar sync completed"})]

\* An entry point of the manager that ended before any await, answering c
\* (the call as lastCall records it).
AfterEntry(c) ==
  CASE c.result \in {"noop", "skipped"} ->
         [status |-> syncStatus,
          settled |-> Settled(c.origin, "resolved", "none", {})]
    [] c.result = "notConfigured" ->
         [status |-> [syncStatus EXCEPT
                        !.lastError = "Sync not configured properly"],
          settled |-> Settled(c.origin, "resolved", "none",
                              {"Google Calendar sync is not configured"})]
    [] c.origin \in {"manual", "tick"}
         /\ c.level = "manager"
         /\ (c.eng = 0 \/ c.result = "SYNC_IN_PROGRESS") ->
         [status |-> syncStatus,
          settled |-> Settled(c.origin, HowSettled(c.origin, c.result),
                              c.result, {})]
    [] OTHER -> AfterPass(c.origin, c.result, c.eng)

\* What the callers and the status store see of a step of the synchronisation:
\* a call that is accepted is awaited by its caller, a call that is refused
\* and a pass that ends resume the caller.
Observe ==
  LET c == lastCall'
      slot == CHOOSE p \in FreeSlots : \A q \in FreeSlots : p <= q
      ended == { p \in 1..MaxPasses :
                   InFlight(p) /\ passes'[p].pc \in {"returned", "thrown"} }
  IN IF c # NoCall /\ c.result = "accepted" THEN
       /\ ui' = [ui EXCEPT !.callers[slot] = c.origin]
       /\ syncStatus' = IF c.origin = "record" THEN syncStatus
                        ELSE [syncStatus EXCEPT !.isActive = TRUE]
     ELSE IF c # NoCall THEN
       /\ ui' = [ui EXCEPT !.settled = AfterEntry(c).settled]
       /\ syncStatus' = AfterEntry(c).status
     ELSE IF ended # {} THEN
       \E p \in ended :
         LET after == AfterPass(ui.callers[p], passes'[p].result.error,
                                syncEngine')
         IN /\ ui' = [ui EXCEPT !.settled = after.settled,
                                !.callers[p] = "none"]
            /\ syncStatus' = after.status
     ELSE UNCHANGED <<syncStatus, ui>>

Remove(s, k) == SubSeq(s, 1, k - 1) \o SubSeq(s, k + 1, Len(s))

\* api.deleteRecord(record.id) of handleRecordDelete, skipped for a virtual
\* occurrence.
LocalDelete(s, rec) ==
  IF rec.isVirtual \/ IndexOf(s, rec.id) = 0 THEN s
  ELSE Remove(s, IndexOf(s, rec.id))

\* handleRecordDelete(record, isVirtual) up to its first await: onRecordDelete
\* returns at once without an engine or for a record that is no calendar
\* event, deleteGoogleEvent does nothing for a record without event id or
\* calendar id, otherwise api.deleteEvent is awaited.
HandleRecordDelete(k, isVirtual) ==
  LET v == store[k].values
      rec == [id |-> store[k].id, eventId |-> v.eventId,
              isVirtual |-> isVirtual]
  IN /\ ui.deleting = NoRecord
     /\ IF syncEngine = 0 \/ ~isCalendarEvent(v) THEN
          /\ store' = LocalDelete(store, rec)
          /\ ui' = [ui EXCEPT !.settled = Settled("delete", "resolved",
                                                  "none", {})]
        ELSE IF v.eventId = NoId \/ v.calId = "" THEN
          /\ store' = LocalDelete(store, rec)
          /\ ui' = [ui EXCEPT !.settled =
                      Settled("delete", "resolved", "none",
                              {"Calendar event deleted successfully"})]
        ELSE /\ ui' = [ui EXCEPT !.deleting = rec]
             /\ UNCHANGED store
     /\ lastCall' = NoCall
     /\ UNCHANGED <<now, remote, created, config, syncEngine, syncInterval,
                    engines, passes, started, syncStatus, api, lifecycle, expansion, mapping>>

\* api.deleteEvent answers: onRecordDelete shows a notice and, on failure,
\* re-raises; handleRecordDelete deletes the record only when onRecordDelete
\* resolved, and shows its own notice otherwise.
DeleteEventDone(outcomes) ==
  LET rec == ui.deleting
      found == { ev \in remote : ev.id = rec.eventId }
  IN /\ rec # NoRecord
     /\ \E out \in outcomes :
          /\ out.refreshed => CanHandle(config)
          /\ LET m == AfterCall(out)
             IN /\ syncEngine' = m.syncEngine
                /\ syncInterval' = m.syncInterval
                /\ engines' = Collected(m.engines, m.syncEngine, Live)
          /\ IF out.ok /\ found # {} THEN
               /\ remote' = remote \ found
               /\ store' = LocalDelete(store, rec)
               /\ ui' = [ui EXCEPT
                           !.deleting = NoRecord,
                           !.settled =
                             Settled("delete", "resolved", "none",
                                     {"Calendar event deleted successfully"})]
             ELSE
               /\ UNCHANGED <<remote, store>>
               /\ ui' = [ui EXCEPT
                           !.deleting = NoRecord,
                           !.settled =
                             Settled("delete", "rejected",
                                     IF out.ok THEN "UNKNOWN_ERROR"
                                     ELSE fromError(out.error),
                                     {"Failed to delete calendar event",
                                      "Failed to delete record"})]
     /\ lastCall' = NoCall
     /\ passes' = Live
     /\ UNCHANGED <<now, created, config, started, syncStatus, api, lifecycle, expansion, mapping>>

\* ------------------------------------------------- manager lifecycle
\* handleConfigChange leaving the timer of the old configuration armed.
ArmedAfter_NoStop(armed, field, cfg) ==
  IF BuildsEngine(cfg) /\ cfg.autoSync /\ cfg.syncInterval # 0
  THEN armed + 1 ELSE armed

\* The number of armed timers after handleConfigChange(cfg), field being
\* this.syncInterval before it: stopAutoSync clears the timer the field
\* holds, startAutoSync arms one.
ArmedAfter(armed, field, cfg) ==
  LET stopped == IF field # 0 THEN armed - 1 ELSE armed
  IN IF BuildsEngine(cfg) /\ cfg.autoSync /\ cfg.syncInterval # 0
     THEN stopped + 1 ELSE stopped

\* The configuration store is set to c and its subscriber, handleConfigChange,
\* runs: the subscription made by the constructor is never cancelled.
ConfigChange(c) ==
  /\ SetConfig(c)
  /\ lifecycle' = [lifecycle EXCEPT !.armed = ArmedAfter(@, syncInterval, c)]
  /\ UNCHANGED <<api, syncStatus, ui, expansion, mapping>>

\* A remote call of a running pass got a 401 and refreshed the token: the
\* callback stores the new access token in the configuration store.
TokenRefreshed ==
  /\ \E p \in 1..MaxPasses : passes[p].pc \in {"fetch", "remoteWrite"}
  /\ ConfigChange(config)

\* destroy(): stopAutoSync and the engine is dropped.
Destroy ==
  /\ ~lifecycle.destroyed
  /\ lifecycle' = [armed |-> IF syncInterval # 0 THEN lifecycle.armed - 1
                             ELSE lifecycle.armed,
                   destroyed |-> TRUE]
  /\ syncEngine' = 0
  /\ syncInterval' = 0
  /\ engines' = Collected(engines, 0, Live)
  /\ passes' = Live
  /\ lastCall' = NoCall
  /\ UNCHANGED <<now, store, remote, created, config, started, api,
                 syncStatus, ui, expansion, mapping>>

\* ------------------------------------------------------------------- Next
Invocation ==
  \/ ManagerPerformSync("manual", TRUE)
  \/ AutoSyncTick(TRUE)
  \/ \E k \in 1..Len(store) : SyncRecord(k)

Environment ==
  \/ \E k \in 1..Len(store) : UserEdit(k)
  \/ \E ev \in remote : RemoteEdit(ev)

\* The API client of the synchronisation is held by its engine; the client
\* observed on its own (api) takes no step while the synchronisation runs.
Quiet == UNCHANGED <<api, syncStatus, ui, lifecycle, expansion, mapping>>

\* Passes over the initial vaults, started from the settings tab
\* (performManualSync); the access token stays valid.
Next ==
  \/ (\E k \in 1..Len(store) : UserEdit(k)) /\ Quiet
  \/ (\E ev \in remote : RemoteEdit(ev)) /\ Quiet
  \/ (\E f \in BOOLEAN : PerformManualSync(f)) /\ Quiet
  \/ (\E p \in 1..MaxPasses :
        FetchDone(p, CallOutcomes(RawResults \ {"401"}))) /\ Quiet
  \/ (\E p \in 1..MaxPasses :
        RemoteWrite(p, CallOutcomes(RawResults \ {"401"}))) /\ Quiet
  \/ (\E p \in 1..MaxPasses : RecordWrite(p, BOOLEAN)) /\ Quiet
  \/ (\E p \in 1..MaxPasses : NoteWrite(p, BOOLEAN)) /\ Quiet

Spec == Init /\ [][Next]_vars

\* A vault in which the user has switched the synchronisation of a linked
\* note off (google-calendar-sync: false), beside a note never synchronised.
OptOutWorld ==
  [store |-> Notes([Values("due", "Plan") EXCEPT !.eventId = "e1",
                                                 !.calId = "cal",
                                                 !.sync = "false",
                                                 !.lastSync = 1],
                   Values("due", "")),
   remote |-> {EvE1}]

InitOptOut == InitWith(OptOutWorld, Config(TRUE, "cal", FALSE))

SpecOptOut == InitOptOut /\ [][Next]_vars

\* A vault holding the note of the recurring event m1 under the name the
\* plugin gives such notes, its google-event-id removed by the user.
TakenNameWorld ==
  [store |-> << [id |-> CreatedNoteName(EvM1),
                 values |-> Values("due", "Standup")] >>,
   remote |-> {EvM1}]

InitTakenName == InitWith(TakenNameWorld, Config(TRUE, "cal", FALSE))

SpecTakenName == InitTakenName /\ [][Next]_vars

\* A vault whose note n1 is linked to the event e1, which has since been
\* deleted in Google Calendar: the note was synchronised before (lastSync 1)
\* or linked by hand (lastSync 0).  Every call of a pass is answered.
VanishedWorld(lastSync) ==
  [store |-> Notes([Values("due", "Plan") EXCEPT !.eventId = "e1",
                                                 !.calId = "cal",
                                                 !.sync = "true",
                                                 !.lastSync = lastSync],
                   Values("due", "")),
   remote |-> {}]

InitVanished ==
  \E lastSync \in {0, 1} :
    InitWith(VanishedWorld(lastSync), Config(TRUE, "cal", FALSE))

SpecVanished ==
  /\ InitVanished /\ [][Next]_vars
  /\ WF_vars((\E p \in 1..MaxPasses :
                FetchDone(p, CallOutcomes(RawResults \ {"401"}))) /\ Quiet)
  /\ WF_vars((\E p \in 1..MaxPasses :
                RemoteWrite(p, CallOutcomes(RawResults \ {"401"}))) /\ Quiet)
  /\ WF_vars((\E p \in 1..MaxPasses : RecordWrite(p, BOOLEAN)) /\ Quiet)
  /\ WF_vars((\E p \in 1..MaxPasses : NoteWrite(p, BOOLEAN)) /\ Quiet)

\* A configured plugin over the small vault.  Every remote call and every
\* record-store call is answered: the step that resumes a suspended pass is
\* eventually taken.
InitFair == InitWith(SmallWorld, Config(TRUE, "cal", TRUE))

FairSpec ==
  /\ InitFair /\ [][Next]_vars
  /\ WF_vars((\E p \in 1..MaxPasses :
                FetchDone(p, CallOutcomes(RawResults \ {"401"}))) /\ Quiet)
  /\ WF_vars((\E p \in 1..MaxPasses :
                RemoteWrite(p, CallOutcomes(RawResults \ {"401"}))) /\ Quiet)
  /\ WF_vars((\E p \in 1..MaxPasses : RecordWrite(p, BOOLEAN)) /\ Quiet)
  /\ WF_vars((\E p \in 1..MaxPasses : NoteWrite(p, BOOLEAN)) /\ Quiet)

\* The manager under configuration changes and token expiry.
NextManager ==
  \/ (\E k \in 1..Len(store) : UserEdit(k)) /\ Quiet
  \/ (\E ev \in remote : RemoteEdit(ev)) /\ Quiet
  \/ ManagerPerformSync("manual", TRUE) /\ Quiet
  \/ AutoSyncTick(TRUE) /\ Quiet
  \/ (\E k \in 1..Len(store) : SyncRecord(k)) /\ Quiet
  \/ PerformManualSync(TRUE) /\ Quiet
  \/ (\E c \in ConfigInputs : SetConfig(c)) /\ Quiet
  \/ (\E p \in 1..MaxPasses :
        FetchDone(p, CallOutcomes({"ok", "401"}))) /\ Quiet
  \/ (\E p \in 1..MaxPasses :
        RemoteWrite(p, CallOutcomes({"ok", "401"}))) /\ Quiet
  \/ (\E p \in 1..MaxPasses : RecordWrite(p, {TRUE})) /\ Quiet
  \/ (\E p \in 1..MaxPasses : NoteWrite(p, {TRUE})) /\ Quiet

SpecManager == InitManager /\ [][NextManager]_vars

\* One API client on its own, every raw answer of the calendar service; the
\* synchronisation, its status store and its callers stand still.
NextApi ==
  \/ (\E cb \in BOOLEAN : ApiConstruct(cb)) /\ UNCHANGED <<syncVars, syncStatus, ui, lifecycle, expansion, mapping>>
  \/ (\E op \in ApiOps : ApiCall(op)) /\ UNCHANGED <<syncVars, syncStatus, ui, lifecycle, expansion, mapping>>
  \/ (\E r \in {NoError} \cup ApiErrors : ApiAttempt(r)) /\ UNCHANGED <<syncVars, syncStatus, ui, lifecycle, expansion, mapping>>
  \/ (\E t \in {"fail"} \cup NewTokens : ApiRefresh(t)) /\ UNCHANGED <<syncVars, syncStatus, ui, lifecycle, expansion, mapping>>
  \/ (\E r \in {NoError} \cup ApiErrors : ApiRetry(r)) /\ UNCHANGED <<syncVars, syncStatus, ui, lifecycle, expansion, mapping>>

SpecApi == InitManager /\ [][NextApi]_vars

\* The life of a manager: configuration changes, token expiry while passes
\* run, and destroy() when the view is closed; the configuration store lives
\* on.
NextLifecycle ==
  \/ \E c \in ConfigInputs : ConfigChange(c)
  \/ TokenRefreshed
  \/ Destroy
  \/ AutoSyncTick(TRUE) /\ Quiet
  \/ (\E p \in 1..MaxPasses : FetchDone(p, CallOutcomes({"ok", "network"})))
       /\ Quiet
  \/ (\E p \in 1..MaxPasses : RemoteWrite(p, CallOutcomes({"ok", "network"})))
       /\ Quiet
  \/ (\E p \in 1..MaxPasses : RecordWrite(p, {TRUE})) /\ Quiet
  \/ (\E p \in 1..MaxPasses : NoteWrite(p, {TRUE})) /\ Quiet

SpecLifecycle == InitManager /\ [][NextLifecycle]_vars

\* The auto-sync intervals the settings can hold: negative, zero (as falsy as
\* a missing value), the two ends of the valid range, and one above it.
SyncIntervals == {-5, 0, MinSyncInterval, MaxSyncInterval, MaxSyncInterval + 1}

IntervalInputs ==
  { [Config(TRUE, "cal", au) EXCEPT !.syncInterval = n] :
      au \in BOOLEAN, n \in SyncIntervals }
  \cup {Config(FALSE, "cal", TRUE)}

\* A manager whose settings are changed, interval included, while the timer
\* ticks and passes run.
NextInterval ==
  \/ \E c \in IntervalInputs : ConfigChange(c)
  \/ AutoSyncTick(TRUE) /\ Quiet
  \/ (\E p \in 1..MaxPasses : FetchDone(p, CallOutcomes({"ok", "network"})))
       /\ Quiet
  \/ (\E p \in 1..MaxPasses : RemoteWrite(p, CallOutcomes({"ok", "network"})))
       /\ Quiet
  \/ (\E p \in 1..MaxPasses : RecordWrite(p, {TRUE})) /\ Quiet
  \/ (\E p \in 1..MaxPasses : NoteWrite(p, {TRUE})) /\ Quiet

SpecInterval == InitManager /\ [][NextInterval]_vars

\* The hooks of the calendar view and the periodic timer over the small
\* vault: record updates and deletions and timer ticks while passes run, the
\* plugin being disabled at any time; the calendar answers or the network
\* fails.
NextHooks ==
  \/ (\E k \in 1..Len(store) : SyncRecord(k)) /\ Observe /\ UNCHANGED <<api, lifecycle, expansion, mapping>>
  \/ AutoSyncTick(TRUE) /\ Observe /\ UNCHANGED <<api, lifecycle, expansion, mapping>>
  \/ SetConfig(Config(FALSE, "cal", FALSE)) /\ Quiet
  \/ \E k \in 1..Len(store) : \E isVirtual \in BOOLEAN :
       HandleRecordDelete(k, isVirtual)
  \/ DeleteEventDone(CallOutcomes({"ok", "network"}))
  \/ (\E p \in 1..MaxPasses :
        FetchDone(p, CallOutcomes({"ok", "network"})))
       /\ Observe /\ UNCHANGED <<api, lifecycle, expansion, mapping>>
  \/ (\E p \in 1..MaxPasses :
        RemoteWrite(p, CallOutcomes({"ok", "network"})))
       /\ Observe /\ UNCHANGED <<api, lifecycle, expansion, mapping>>
  \/ (\E p \in 1..MaxPasses : RecordWrite(p, {TRUE}))
       /\ Observe /\ UNCHANGED <<api, lifecycle, expansion, mapping>>
  \/ (\E p \in 1..MaxPasses : NoteWrite(p, {TRUE}))
       /\ Observe /\ UNCHANGED <<api, lifecycle, expansion, mapping>>

\* The plugin starts enabled, with or without a calendar id.
InitHooks ==
  \E cfg \in {Config(TRUE, "cal", TRUE), Config(TRUE, "", TRUE)} :
    InitWith(SmallWorld, cfg)

SpecHooks == InitHooks /\ [][NextHooks]_vars

\* The expansion of a recurrence rule, one call at a time.
\* The rules, start dates and views a call is made with.
Counts == {<<>>} \cup { <<n>> : n \in 0..MaxCount }

ExpandRules ==
  { Rule(f, i, c, <<>>, <<>>, bm) :
      f \in {"DAILY", "YEARLY", "HOURLY"}, i \in 1..2, c \in Counts,
      bm \in {<<>>, <<1>>} }
  \cup { Rule("WEEKLY", i, c, bd, <<>>, bm) :
           i \in 1..2, c \in Counts, bd \in {<<>>, <<"MO", "WE">>},
           bm \in {<<>>, <<1>>} }
  \cup { Rule("MONTHLY", i, c, <<>>, bmd, bm) :
           i \in 1..2, c \in Counts, bmd \in {<<>>, <<15, 31>>},
           bm \in {<<>>, <<1>>} }

\* Rules with UNTIL, and rules whose BYMONTHDAY or BYDAY values are out of
\* range or unknown.
EdgeRules ==
  { [Rule(f, 1, c, <<>>, <<>>, <<>>) EXCEPT !.until = <<u>>] :
      f \in {"DAILY", "WEEKLY"}, c \in {<<>>, <<3>>},
      u \in {DateOf(2024, 1, 10), DateOf(2024, 2, 10)} }
  \cup { Rule("MONTHLY", 1, c, <<>>, bmd, <<>>) :
           c \in {<<>>, <<4>>}, bmd \in {<<-1>>, <<0>>} }
  \cup { Rule("WEEKLY", 1, c, <<"XX">>, <<>>, <<>>) : c \in {<<>>, <<4>>} }

StartDates == {DateOf(2024, 1, 1), DateOf(2024, 1, 31)}

\* The start of a series that began more than a year before the views.
FarStart == DateOf(2022, 12, 1)

Views == {<<DateOf(2024, 1, 1), DateOf(2024, 1, 31)>>,
          <<DateOf(2024, 2, 1), DateOf(2024, 3, 31)>>}

\* A view that overlaps both.
ShiftedView == <<DateOf(2024, 1, 15), DateOf(2024, 2, 15)>>

ExpandCalls ==
  ((ExpandRules \cup EdgeRules) \X StartDates \X Views)
  \cup ({Rule("DAILY", 1, <<>>, <<>>, <<>>, <<>>)} \X {FarStart} \X Views)

InitExpand ==
  /\ InitSync(SmallWorld, defaultConfig)
  /\ mapping = NoMapping
  /\ \E call \in ExpandCalls :
       expansion = Called(call[1], call[2], call[3][1], call[3][2])

NextExpand == ExpandBegin \/ ExpandStep \/ ExpandReturn

SpecExpand == InitExpand /\ [][NextExpand]_vars

\* The mappings of events and records, one call at a time.  Events: all-day
\* events of one and of two days, timed events around local midnight and
\* in the day.  Records: every combination of present and absent fields.
ZoneOffsets == {-300, 0, 60}

MapEvents ==
  { AllDayEvent(d, d + n) : d \in {DateOf(2024, 3, 1)}, n \in 1..2 }
  \cup { TimedEvent(s, s + dur) :
           s \in { DateOf(2024, 3, 1) * 1440 + m : m \in {-60, 0, 300, 600} },
           dur \in {30, 60, 1440} }

MapRecords ==
  LET at == DateOf(2024, 3, 1) * 1440
  IN { Fields(sd, ed, dd, st, et) :
         sd \in {<<>>, <<at>>, <<at + 600>>}, ed \in {<<>>, <<at + 1440>>},
         dd \in {<<>>, <<[day |-> DateOf(2024, 3, 1), minute |-> 0]>>,
                 <<[day |-> DateOf(2024, 3, 1), minute |-> 540]>>},
         st \in {<<>>, <<600>>}, et \in {<<>>, <<660>>} }

InitMapping ==
  /\ InitSync(SmallWorld, defaultConfig)
  /\ expansion = NoExpansion
  /\ \E tz \in ZoneOffsets :
       \/ \E ev \in MapEvents :
            mapping = [NoMapping EXCEPT !.pc = "event", !.tz = tz,
                                        !.event = ev]
       \/ \E f \in MapRecords :
            mapping = [NoMapping EXCEPT !.pc = "record", !.tz = tz,
                                        !.fields = f]

NextMapping ==
  \/ MapEvent
  \/ MapRecord
  \/ \E googleEvent \in MapEvents : UpdateNote(googleEvent)

SpecMapping == InitMapping /\ [][NextMapping]_vars

\* ------------------------------------------------------------------ claims
Finished(p) == passes[p].pc \in {"returned", "thrown"}

RemoteOps == {"createEvent", "updateEvent"}

NoteOps == {"createNote", "updateNote"}

Synced(v) == v.eventId # NoId /\ v.lastSync # 0

\* C1: in every reachable state at most one performSync pass is in flight,
\* whichever way the passes were started (manual sync, auto-sync tick,
\* onRecordUpdate) and also when the configuration store changes during a pass
\* and the manager rebuilds its engine.
C1_AtMostOnePassInFlight ==
  Cardinality({ p \in 1..MaxPasses : InFlight(p) }) <= 1

\* C2: a performSync with valid arguments on an engine that has a pass in
\* flight is rejected with SYNC_IN_PROGRESS; the step issues no remote call and
\* no record-store write, and leaves the running flag and the conflict list of
\* the engine, and the pass in flight, as they were.
C2_SecondCallRejected ==
  [][ ( /\ lastCall'.level = "engine"
        /\ lastCall'.frameOk
        /\ TrimCalendarId(lastCall'.calendarId) # ""
        /\ \E p \in 1..MaxPasses :
             InFlight(p) /\ passes[p].eng = lastCall'.eng )
      => /\ lastCall'.result = "SYNC_IN_PROGRESS"
         /\ store' = store /\ remote' = remote /\ created' = created
         /\ engines'[lastCall'.eng] = engines[lastCall'.eng]
         /\ \A p \in 1..MaxPasses :
              passes'[p] = IF InFlight(p) THEN passes[p] ELSE NoPass ]_vars

C2_Witness ==
  /\ lastCall.level = "engine"
  /\ lastCall.result = "SYNC_IN_PROGRESS"
  /\ \E p \in 1..MaxPasses : InFlight(p) /\ passes[p].eng = lastCall.eng

\* The records and the events of a pass whose iteration reaches a write.
NeedsRemoteWrite(pass) ==
  { j \in 1..Len(calendarRecords(pass.frame)) :
      O2GKind(calendarRecords(pass.frame)[j].values) # "skip" }

NeedsNoteWrite(pass) ==
  { j \in 1..Len(eventsByBaseId(pass.events)) :
      G2OKind(calendarRecords(pass.frame), eventsByBaseId(pass.events)[j])
        # "skip" }

OkCount(pass, ops) ==
  Cardinality({ n \in 1..Len(pass.log) :
                  pass.log[n].op \in ops /\ pass.log[n].ok })

\* C3: once the events are fetched a pass never throws, whatever fails for a
\* record or an event: when it returns, the remote write of every record and
\* the store write of every event that needed one has been issued, and the
\* result carries the counts of the writes that succeeded.
C3_FailuresIsolated ==
  \A p \in 1..MaxPasses :
    LET pass == passes[p]
        recs == calendarRecords(pass.frame)
        groups == eventsByBaseId(pass.events)
    IN /\ pass.pc = "thrown" => pass.log = <<>>
       /\ pass.pc = "returned" =>
            /\ \A j \in NeedsRemoteWrite(pass) :
                 \E n \in 1..Len(pass.log) :
                   pass.log[n].op \in RemoteOps /\ pass.log[n].rec = recs[j].id
            /\ \A j \in NeedsNoteWrite(pass) :
                 \E n \in 1..Len(pass.log) :
                   /\ pass.log[n].op \in NoteOps
                   /\ pass.log[n].ev = BaseId(groups[j])
            /\ pass.result.status = "ok"
            /\ pass.result.obsidianToGoogle = OkCount(pass, {"updateRecord"})
            /\ pass.result.googleToObsidian = OkCount(pass, NoteOps)

\* A returned pass in which a remote write failed for one record and a later
\* record was written, and a store write failed for one event and a later
\* event was written.
C3_Witness ==
  \E p \in 1..MaxPasses :
    LET log == passes[p].log
    IN /\ passes[p].pc = "returned"
       /\ \E a, b \in 1..Len(log) :
            /\ a < b /\ log[a].op \in RemoteOps /\ ~log[a].ok
            /\ log[b].op \in RemoteOps /\ log[b].ok
       /\ \E a, b \in 1..Len(log) :
            /\ a < b /\ log[a].op \in NoteOps /\ ~log[a].ok
            /\ log[b].op \in NoteOps /\ log[b].ok

\* C4: performSync with an empty or blank calendar id is rejected with
\* INVALID_CONFIGURATION, and with a record set without a records array with
\* VALIDATION_ERROR; the step issues no remote call and no record-store write
\* and leaves the running flag, the conflict list and lastSync as they were.
C4_InvalidArgumentsRejected ==
  [][ ( /\ lastCall'.level = "engine"
        /\ (TrimCalendarId(lastCall'.calendarId) = "" \/ ~lastCall'.frameOk) )
      => /\ lastCall'.result =
              IF TrimCalendarId(lastCall'.calendarId) = ""
              THEN "INVALID_CONFIGURATION" ELSE "VALIDATION_ERROR"
         /\ store' = store /\ remote' = remote /\ created' = created
         /\ engines'[lastCall'.eng] = engines[lastCall'.eng]
         /\ config' = config
         /\ \A p \in 1..MaxPasses :
              passes'[p] = IF InFlight(p) THEN passes[p] ELSE NoPass ]_vars

\* A record set without a records array handed to an engine that is running.
C4_Witness ==
  /\ lastCall.level = "engine"
  /\ lastCall.result = "VALIDATION_ERROR"
  /\ engines[lastCall.eng].syncInProgress

\* C5: an accepted performSync eventually leaves the running state; when it has
\* returned or thrown the running flag of its engine is false, a failure
\* carries one of the typed sync errors, and a performSync on that engine
\* would not be rejected with SYNC_IN_PROGRESS.
C5_PassLeavesRunning ==
  /\ \A p \in 1..MaxPasses : InFlight(p) ~> ~InFlight(p)
  /\ [](\A p \in 1..MaxPasses :
          Finished(p) =>
            /\ ~engines[passes[p].eng].syncInProgress
            /\ ~getSyncStatus(engines[passes[p].eng]).isActive
            /\ passes[p].pc = "thrown" =>
                 /\ passes[p].result.status = "error"
                 /\ passes[p].result.error \in ErrorTypes
            /\ performSyncEntry(engines[passes[p].eng], passes[p].calendarId,
                                TRUE) # "SYNC_IN_PROGRESS")

\* A second performSync was accepted after the first had thrown or returned,
\* and has thrown in its turn.
C5_Witness ==
  /\ started = 2
  /\ \E p \in 1..MaxPasses :
       passes[p].pc = "thrown" /\ ~engines[passes[p].eng].syncInProgress

\* C6: a pass writes back the record of a createEvent that succeeded: the pass
\* has issued exactly one createEvent for the record, and the stored record
\* carries the id of the created event, the calendar id, the sync flag and a
\* last-sync timestamp; no pass issues two createEvent for one record.
C6_CreatedOnceAndLinked ==
  [][ \A p \in 1..MaxPasses :
        LET pass == passes[p]
            after == passes'[p].log
            creates(rec) == { n \in 1..Len(after) :
                               after[n].op = "createEvent" /\ after[n].rec = rec }
        IN /\ \A n \in 1..Len(after) :
                after[n].op = "createEvent" =>
                  Cardinality(creates(after[n].rec)) = 1
           /\ ( /\ pass.pc = "recordWrite"
                /\ passes'[p].o2g = pass.o2g + 1
                /\ calendarRecords(pass.frame)[pass.i].values.eventId = NoId )
              => LET r == calendarRecords(pass.frame)[pass.i]
                     v == store'[IndexOf(store', r.id)].values
                 IN /\ \E n \in creates(r.id) :
                         after[n].ok /\ after[n].ev = pass.pending
                    /\ \E ev \in remote' : ev.id = pass.pending
                    /\ v.eventId = pass.pending
                    /\ v.calId = pass.calendarId
                    /\ v.sync = "true"
                    /\ v.lastSync = pass.stamp /\ v.lastSync # 0 ]_vars

\* The write-back of a created event has just succeeded.
C6_Witness ==
  \E p \in 1..MaxPasses :
    LET log == passes[p].log
    IN /\ Len(log) >= 2
       /\ log[Len(log)].op = "updateRecord" /\ log[Len(log)].ok
       /\ log[Len(log) - 1].op = "createEvent"
       /\ \E k \in 1..Len(store) :
            /\ store[k].id = log[Len(log)].rec
            /\ store[k].values.eventId = log[Len(log) - 1].ev
            /\ store[k].values.eventId # NoId

\* C7: a record that carries an event id and a last-sync timestamp and was
\* edited since is pushed by the next pass that returns: the pass issues
\* updateEvent for it.
C7_EditedRecordPushed ==
  \A p \in 1..MaxPasses :
    LET pass == passes[p]
        recs == calendarRecords(pass.frame)
    IN pass.pc = "returned" =>
         \A j \in 1..Len(recs) :
           ( /\ Synced(recs[j].values) /\ recs[j].values.dirty
             /\ shouldSyncToGoogle(recs[j].values)
             /\ MapRecordOk(recs[j].values) )
           => \E n \in 1..Len(pass.log) :
                pass.log[n].op = "updateEvent" /\ pass.log[n].rec = recs[j].id

\* The groups of a pass that no record of its record set is linked to, and the
\* createNote calls the pass has issued for a base id.
Unmatched(pass) ==
  { j \in 1..Len(eventsByBaseId(pass.events)) :
      recordsByEventId(calendarRecords(pass.frame),
                       BaseId(eventsByBaseId(pass.events)[j])) = 0 }

NoteCreates(pass, b) ==
  { n \in 1..Len(pass.log) :
      pass.log[n].op = "createNote" /\ pass.log[n].ev = b }

\* C8 as stated: a pass that returns has issued exactly one createNote for
\* every base id among its fetched events that no record of its record set
\* carries.
C8_OneNotePerMasterId ==
  \A p \in 1..MaxPasses :
    LET pass == passes[p]
        groups == eventsByBaseId(pass.events)
    IN pass.pc = "returned" =>
         \A j \in Unmatched(pass) :
           Cardinality(NoteCreates(pass, BaseId(groups[j]))) = 1

\* C8 as amended: the fetched events are grouped by base id, the copy with
\* recurrence rules being the one kept; a pass issues at most one createNote
\* per base id, and when it returns it has issued exactly one for a base id no
\* record is linked to if the kept copy maps to frontmatter and no record has
\* the name of the duplicate guard, and none otherwise; the note of every
\* createNote carries the base id as its event id.
C8_OneNotePerMappableMasterId ==
  \A p \in 1..MaxPasses :
    LET pass == passes[p]
        recs == calendarRecords(pass.frame)
        groups == eventsByBaseId(pass.events)
    IN /\ \A n \in 1..Len(pass.events) :
            \E j \in 1..Len(groups) :
              /\ BaseId(groups[j]) = BaseId(pass.events[n])
              /\ pass.events[n].recurrence => groups[j].recurrence
       /\ \A i, j \in 1..Len(groups) :
            BaseId(groups[i]) = BaseId(groups[j]) => i = j
       /\ \A n \in 1..Len(pass.log) :
            pass.log[n].op = "createNote" =>
              /\ Cardinality(NoteCreates(pass, pass.log[n].ev)) = 1
              /\ \E j \in Unmatched(pass) :
                   /\ pass.log[n].ev = BaseId(groups[j])
                   /\ pass.log[n].rec = CreatedNoteName(groups[j])
              /\ pass.log[n].ok =>
                   \E k \in 1..Len(store) :
                     /\ store[k].id = pass.log[n].rec
                     /\ store[k].values.eventId = pass.log[n].ev
       /\ pass.pc = "returned" =>
            \A j \in Unmatched(pass) :
              Cardinality(NoteCreates(pass, BaseId(groups[j]))) =
                IF /\ MapEventOk(groups[j])
                   /\ ~recordsByNoteName(recs, GuardNoteName(groups[j]))
                THEN 1 ELSE 0

\* A pass that fetched an instance before its master has returned with one
\* note created for the two, under the name of the master.
C8_Witness ==
  \E p \in 1..MaxPasses :
    LET pass == passes[p]
    IN /\ pass.pc = "returned"
       /\ Len(pass.events) = 2
       /\ pass.events[1] = EvO1 /\ pass.events[2] = EvM1
       /\ \E n \in NoteCreates(pass, "m1") :
            pass.log[n].ok /\ pass.log[n].rec = CreatedNoteName(EvM1)

\* The ids of the instances of recurring events.
OccurrenceIds == { ev.id : ev \in { e \in remote : e.recurringEventId # NoId } }

\* C9: no record carries the id of an instance of a recurring event as its
\* event id, and no pass has written one.
C9_NoOccurrenceIdWritten ==
  /\ \A k \in 1..Len(store) : store[k].values.eventId \notin OccurrenceIds
  /\ \A p \in 1..MaxPasses :
       \A n \in 1..Len(passes[p].log) :
         passes[p].log[n].op \in NoteOps \cup {"updateRecord"} =>
           passes[p].log[n].ev \notin OccurrenceIds

\* A note was created from an instance whose master was not fetched.
C9_Witness ==
  /\ EvO1 \in remote /\ EvM1 \notin remote
  /\ \E k \in 1..Len(store) :
       /\ store[k].values.eventId = "m1"
       /\ store[k].id = CreatedNoteName(EvO1)

\* C10: a pass that returns, and whose record set holds a synced record that
\* was edited since its last sync while its event was edited too, reports a
\* conflict: in its result and in pendingChanges of getSyncStatus.
C10_ConflictReported ==
  \A p \in 1..MaxPasses :
    LET pass == passes[p]
        recs == calendarRecords(pass.frame)
    IN pass.pc = "returned" =>
         \A j \in 1..Len(recs) :
           ( /\ Synced(recs[j].values) /\ recs[j].values.dirty
             /\ \E n \in 1..Len(pass.events) :
                  /\ BaseId(pass.events[n]) = recs[j].values.eventId
                  /\ pass.events[n].updated > recs[j].values.lastSync )
           => /\ pass.result.conflicts # {}
              /\ getSyncStatus(engines[pass.eng]).pendingChanges > 0

\* ------------------------------------------------------ API client claims
Count(seq, x) == Cardinality({ n \in 1..Len(seq) : seq[n] = x })

\* What executeWithRetry has done once the refresh has succeeded.
Refreshed(a) ==
  IF a.onTokenRefresh
  THEN <<"apiCall", "refreshAccessToken", "onTokenRefresh">>
  ELSE <<"apiCall", "refreshAccessToken">>

\* C11: a 401 on the first attempt leads to exactly one token refresh, then,
\* when the refresh succeeds, to exactly one invocation of the registered
\* callback with the new access token, then to exactly one retry; per call the
\* operation is attempted at most twice and the token refreshed at most once.
C11_OneRefreshOneCallbackOneRetry ==
  /\ Count(api.trace, "apiCall") <= 2
  /\ Count(api.trace, "refreshAccessToken") <= 1
  /\ api.pc = "refresh" => api.trace = <<"apiCall">>
  /\ api.pc = "retry" =>
       /\ api.trace = Refreshed(api)
       /\ api.onTokenRefresh => api.delivered = api.token
  /\ (api.pc = "done" /\ isAuthenticationError(api.first)) =>
       /\ api.trace \in {<<"apiCall", "refreshAccessToken">>,
                         Refreshed(api) \o <<"apiCall">>}
       /\ (api.onTokenRefresh /\ Len(api.trace) > 2) =>
            api.delivered = api.token

\* A call whose first attempt got a 401 has refreshed the token, handed the
\* new token to the callback, retried and succeeded.
C11_Witness ==
  /\ api.pc = "done" /\ api.result.ok
  /\ api.first = ApiError("401", "")
  /\ api.trace = <<"apiCall", "refreshAccessToken", "onTokenRefresh", "apiCall">>
  /\ api.delivered = "t2" /\ api.token = "t2"

\* C12: when the retried call fails after a successful token refresh, the
\* call fails without a further attempt and the error surfaced has the kind
\* AUTHENTICATION_FAILED.
C12_RetryFailureIsAuthenticationFailed ==
  (api.pc = "done" /\ ~api.result.ok /\ Count(api.trace, "apiCall") = 2) =>
    /\ api.trace = Refreshed(api) \o <<"apiCall">>
    /\ api.result.type = "AUTHENTICATION_FAILED"

\* C13: a first-attempt failure that is not a 401 is not retried and
\* refreshes no token; a 403 or quota failure surfaces as API_QUOTA_EXCEEDED,
\* a connectivity failure as NETWORK_ERROR, any other failure as a generic
\* error carrying the original cause.
C13_OtherFailuresNotRetried ==
  (api.pc = "done" /\ api.first # NoError
     /\ ~isAuthenticationError(api.first)) =>
    /\ api.trace = <<"apiCall">>
    /\ ~api.result.ok
    /\ api.result.cause = api.first
    /\ api.result.type =
         IF api.first.code = "403" \/ api.first.message = "quota"
         THEN "API_QUOTA_EXCEEDED"
         ELSE IF api.first.code \in {"ENOTFOUND", "ECONNREFUSED", "ETIMEDOUT"}
                 \/ api.first.message = "network"
         THEN "NETWORK_ERROR"
         ELSE "UNKNOWN_ERROR"

\* A call has failed on a refused connection at its only attempt.
C13_Witness ==
  /\ api.pc = "done" /\ api.first = ApiError("ECONNREFUSED", "")
  /\ api.trace = <<"apiCall">>
  /\ api.result = ApiResult(FALSE, "NETWORK_ERROR", api.first)

\* --------------------------------------------- authentication failures
\* C14: when createEvent or updateEvent fails for a record with an
\* authentication error (the token refresh or the single retry failed), the
\* pass aborts: it issues no further remote write and performSync raises the
\* authentication error.  Under SpecManager the calendar answers a request
\* with success or with 401, so every failed remote write of a pass is an
\* authentication failure.
C14_AuthFailureAbortsPass ==
  \A p \in 1..MaxPasses :
    \A n \in 1..Len(passes[p].log) :
      (passes[p].log[n].op \in RemoteOps /\ ~passes[p].log[n].ok) =>
        /\ \A m \in 1..Len(passes[p].log) :
             m > n => passes[p].log[m].op \notin RemoteOps
        /\ passes[p].pc \notin {"recordWrite", "noteWrite", "returned"}
        /\ passes[p].pc = "thrown" =>
             passes[p].result.error \in
               {"TOKEN_REFRESH_FAILED", "AUTHENTICATION_FAILED"}

\* -------------------------------------------------- hooks of the view
\* C15: when the deletion of a non-virtual calendar record is requested and
\* the remote delete fails, the record is still deleted from the record
\* store.
C15_LocalDeleteDespiteRemoteFailure ==
  [][ ( /\ ui.deleting # NoRecord /\ ~ui.deleting.isVirtual
        /\ ui'.deleting = NoRecord
        /\ ui'.settled.error # "none" )
      => IndexOf(store', ui.deleting.id) = 0 ]_vars

\* C16: onRecordUpdate and onRecordDelete never propagate an error to their
\* caller: whatever fails inside them, their promise resolves and the failure
\* is shown as a notice.
C16_HooksNeverThrow ==
  ui.settled.origin \in {"record", "delete"} =>
    /\ ui.settled.how = "resolved"
    /\ ui.settled.error # "none" => ui.settled.notices # {}

\* The call a tick of the timer makes has failed with error e in this step:
\* refused before a pass began, or its pass ended by throwing.
TickFailed(e) ==
  \/ /\ lastCall'.origin = "tick"
     /\ lastCall'.result \notin {"accepted", "skipped"}
     /\ e = lastCall'.result
  \/ \E p \in 1..MaxPasses :
       /\ ui.callers[p] = "tick" /\ InFlight(p)
       /\ passes'[p].pc = "thrown"
       /\ e = passes'[p].result.error

C17_DestroyedStaysStopped ==
  lifecycle.destroyed =>
    syncEngine = 0 /\ syncInterval = 0 /\ lifecycle.armed = 0

\* C18: a manager has at most one armed timer, the one its field holds, and
\* a timer is armed only while the latest configuration is enabled, has
\* client credentials and has auto-sync on; it holds an engine only while the
\* latest configuration is enabled and has credentials.
C18_OneEngineOneTimer ==
  /\ lifecycle.armed = IF syncInterval # 0 THEN 1 ELSE 0
  /\ syncInterval # 0 =>
       /\ config.enabled /\ config.credentials # "" /\ config.autoSync
       /\ syncEngine # 0
  /\ syncEngine # 0 => config.enabled /\ config.credentials # ""

\* The configuration has been changed twice with auto-sync on, a pass of the
\* first engine still running: one timer is armed.
C18_Witness ==
  /\ lifecycle.armed = 1 /\ syncInterval # 0
  /\ \E p \in 1..MaxPasses : InFlight(p) /\ passes[p].eng # syncEngine

\* ------------------------------------------------------ recurrence claims
\* C20: a rule with COUNT=N and no UNTIL yields at most N dates, whatever
\* the start date and the view.
C20_AtMostCountDates ==
  (expansion.pc # "idle" /\ expansion.rule.count # <<>>
     /\ expansion.rule.until = <<>>)
    => Len(expansion.occurrences) <= expansion.rule.count[1]

\* C21: every date emitted, the start date included, satisfies the filters of
\* the rule that are present: its weekday is listed in BYDAY, its day of the
\* month is listed in BYMONTHDAY (clamped to the length of the month) and its
\* month is listed in BYMONTH.
C21_EmittedDatesSatisfyFilters ==
  LET rule == expansion.rule
      Passes(d) ==
        LET c == Civil(d)
        IN /\ rule.byDay # <<>> =>
                \E i \in 1..Len(rule.byDay) :
                  rule.byDay[i] \in DOMAIN dayMap
                    /\ dayMap[rule.byDay[i]] = d % 7
           /\ rule.byMonthDay # <<>> =>
                \E i \in 1..Len(rule.byMonthDay) :
                  Min(rule.byMonthDay[i], daysInMonth(c.year, c.month)) = c.date
           /\ rule.byMonth # <<>> =>
                \E i \in 1..Len(rule.byMonth) : rule.byMonth[i] = c.month
  IN \A k \in 1..Len(expansion.occurrences) : Passes(expansion.occurrences[k])

\* C22: for a rule whose FREQ is not DAILY, WEEKLY, MONTHLY or YEARLY the
\* expansion stops at once: the result holds no date other than the start
\* date, and holds it at most once.
C22_UnknownFreqStopsAtOnce ==
  expansion.rule.freq \notin {"DAILY", "WEEKLY", "MONTHLY", "YEARLY"}
    => /\ Len(expansion.occurrences) <= 1
       /\ \A k \in 1..Len(expansion.occurrences) :
            expansion.occurrences[k] = expansion.startDate

\* ---------------------------------------------------------- mapping claims
\* C23: an event mapped to record fields and back keeps its boundaries: an
\* all-day event comes back all-day with the same start date, a timed event
\* comes back timed with the same start and end, also when it starts and
\* ends at midnight.
C23_RoundTripKeepsBoundaries ==
  mapping.pc = "back" =>
    /\ mapping.back.thrown = "none"
    /\ mapping.back.event.allDay = mapping.event.allDay
    /\ mapping.back.event.start = mapping.event.start
    /\ ~mapping.event.allDay => mapping.back.event.end = mapping.event.end

\* C24: a record with neither a start-date and end-date pair nor a due date
\* is rejected with an error of kind VALIDATION_ERROR, never mapped to an
\* event.
C24_UndatedRecordIsValidationError ==
  (mapping.pc = "mapped" /\ mapping.fields.dueDate = <<>>
     /\ (mapping.fields.startDate = <<>> \/ mapping.fields.endDate = <<>>))
    => mapping.back.thrown = "VALIDATION_ERROR"

\* ------------------------------------------------------------ pass claims
\* C25: whatever passes have run, no two records of the vault carry the same
\* google-event-id, records with google-calendar-sync false included.
C25_NoTwoRecordsShareEventId ==
  \A j, k \in 1..Len(store) :
    (j # k /\ store[j].values.eventId # NoId)
      => store[j].values.eventId # store[k].values.eventId
\* C26: a pass started by syncRecord(r) writes no record of the vault other
\* than r: it creates none and updates no other.
C26_RecordSyncWritesOnlyItsRecord ==
  \A p \in 1..MaxPasses :
    ((InFlight(p) /\ ui.callers[p] = "record")
       \/ (passes[p].pc = "returned" /\ ui.settled.origin = "record")) =>
      \A n \in 1..Len(passes[p].log) :
        LET entry == passes[p].log[n]
        IN (entry.ok /\ entry.op \in {"updateRecord", "updateNote",
                                       "createNote"})
             => entry.rec = passes[p].frame[1].id
\* C27: whatever passes run, and whether or not the write-back after a
\* successful createEvent succeeds, at most one event of the calendar was
\* created for any one record (the events created for a record are those
\* createEvent answered with, carrying the summary of the record).
C27_OneCreatedEventPerRecord ==
  \A k \in 1..Len(store) :
    \A a, b \in remote :
      (/\ a.id \in { CreatedId(n) : n \in 1..MaxCreated }
       /\ b.id \in { CreatedId(n) : n \in 1..MaxCreated }
       /\ a.summary = mapRecordToGoogleEvent(store[k].values).summary
       /\ b.summary = a.summary)
        => a.id = b.id
\* C28: within one pass, a record that was pushed to its event (createEvent
\* or updateEvent answered) is not afterwards overwritten from the events of
\* that pass, which were fetched before the push.
C28_PushedRecordNotOverwritten ==
  \A p \in 1..MaxPasses :
    \A i, j \in 1..Len(passes[p].log) :
      LET push == passes[p].log[i]
          pull == passes[p].log[j]
      IN ~(/\ i < j
           /\ push.op \in {"createEvent", "updateEvent"} /\ push.ok
           /\ pull.op = "updateNote" /\ pull.ok
           /\ pull.rec = push.rec)
\* The events of a pass that the Remote->Local loop has dealt with and that
\* a record of the pass is linked to, with that record.
Matched(p) ==
  LET pass == passes[p]
  IN { <<j, recordsByEventId(pass.records, BaseId(pass.groups[j]))>> :
         j \in { n \in 1..Len(pass.groups) :
                   /\ pass.pc = "returned" \/ (pass.pc = "noteWrite" /\ n < pass.i)
                   /\ recordsByEventId(pass.records,
                                       BaseId(pass.groups[n])) # 0 } }

Pulled(p, k) ==
  \E n \in 1..Len(passes[p].log) :
    /\ passes[p].log[n].op = "updateNote"
    /\ passes[p].log[n].rec = passes[p].records[k].id

\* C29: in the Remote->Local loop the update of a matched record is issued
\* exactly when the event's updated is strictly later than the record's last
\* synchronisation (0 when it has none), for an event that maps to
\* frontmatter; on equal timestamps nothing is issued, and the pulled count
\* counts the writes that succeeded, no others.
C29_UpdatedOnlyWhenStrictlyNewer ==
  \A p \in 1..MaxPasses :
    /\ \A m \in Matched(p) :
         LET ev == passes[p].groups[m[1]]
             r == passes[p].records[m[2]]
         IN MapEventOk(ev) =>
              (Pulled(p, m[2]) <=> ev.updated > r.values.lastSync)
    /\ passes[p].pc \in {"noteWrite", "returned"} =>
         passes[p].g2o =
           Cardinality({ n \in 1..Len(passes[p].log) :
                           /\ passes[p].log[n].ok
                           /\ passes[p].log[n].op \in {"updateNote",
                                                        "createNote"} })

\* A pass has returned that met an event updated at the very time its record
\* was last synchronised, and left the record alone.
C29_Witness ==
  \E p \in 1..MaxPasses :
    /\ passes[p].pc = "returned"
    /\ \E m \in Matched(p) :
         /\ passes[p].groups[m[1]].updated =
              passes[p].records[m[2]].values.lastSync
         /\ ~Pulled(p, m[2])
\* C30: the Remote->Local loop never asks the record store to create a
\* record under a name that a record of the pass's record set already has
\* (the duplicate guard tests the very name the record is created under).
C30_NoCreateUnderTakenName ==
  \A p \in 1..MaxPasses :
    \A n \in 1..Len(passes[p].log) :
      passes[p].log[n].op = "createNote" =>
        ~recordsByNoteName(passes[p].records, passes[p].log[n].rec)


\* ------------------------------------------- remote writes of one pass
\* C31: in one pass at most one remote write is performed for any record:
\* the log of a pass holds at most one createEvent or updateEvent call per
\* record, whether it succeeded or failed, and the step in which such a call
\* answers, its retry after a token refresh included (the first attempt was
\* refused with 401 and wrote nothing), creates or changes at most one event
\* of the calendar.
C31_AtMostOneRemoteWritePerRecord ==
  [][ /\ \A p \in 1..MaxPasses :
           \A m, n \in 1..Len(passes'[p].log) :
             ( /\ m < n
               /\ passes'[p].log[m].op \in RemoteOps
               /\ passes'[p].log[n].op \in RemoteOps )
               => passes'[p].log[m].rec # passes'[p].log[n].rec
      /\ Cardinality(remote' \ remote) <= 1
      /\ created' <= created + 1 ]_vars

\* A pass whose createEvent succeeded although the token was refreshed
\* while it ran: the manager has replaced the engine the pass runs on.
C31_Witness ==
  \E p \in 1..MaxPasses :
    /\ passes[p].pc = "returned"
    /\ passes[p].eng # syncEngine
    /\ \E n \in 1..Len(passes[p].log) :
         /\ passes[p].log[n].op = "createEvent"
         /\ passes[p].log[n].ok


\* ------------------------------------- records whose event has vanished
\* A record of the pass that carries the id of an event the calendar no
\* longer holds.
Vanished(r) ==
  /\ r.values.eventId # NoId
  /\ \A ev \in remote : ev.id # r.values.eventId

ManagerLastSync(eng, engs) ==
  IF eng = 0 THEN 0 ELSE getSyncStatus(engs[eng]).lastSync

\* C33: when a pass started through the manager returns, the lastSync the
\* manager reports is not earlier than the time the pass began, also when a
\* token was refreshed while it ran; when a pass throws, the lastSync the
\* manager reports is what it was before.
C33_LastSyncRecorded ==
  [][ \A p \in 1..MaxPasses :
        /\ (InFlight(p) /\ passes'[p].pc = "returned") =>
             ManagerLastSync(syncEngine', engines') >= passes'[p].begun
        /\ (InFlight(p) /\ passes'[p].pc = "thrown") =>
             ManagerLastSync(syncEngine', engines')
               = ManagerLastSync(syncEngine, engines) ]_vars


\* ------------------------------------------------- interval of the timer
\* C34: whenever the configuration is enabled, has client credentials and
\* has auto-sync on, a periodic timer is armed, and its interval is the
\* configured one when that lies in [1, 1440] minutes and 15 minutes for
\* every other value.
C34_TimerIntervalClamped ==
  (BuildsEngine(config) /\ config.autoSync /\ ~lifecycle.destroyed) =>
    /\ lifecycle.armed >= 1
    /\ syncInterval =
         IF config.syncInterval \in MinSyncInterval..MaxSyncInterval
         THEN config.syncInterval ELSE DefaultSyncInterval


\* ------------------------------------------- termination of the expander
\* C35: the loop of the expansion ends for every rule, start date and view:
\* it takes fewer turns than its limit on occurrences, and every turn moves
\* the current date strictly forward, also for rules without COUNT and
\* UNTIL, with an unknown FREQ, or with BYDAY or BYMONTHDAY values that are
\* unknown or out of range.
C35_EveryTurnAdvances ==
  [][ (expansion.pc = "loop" /\ expansion'.pc = "loop") =>
        /\ expansion'.occurrenceCount <= maxOccurrences(expansion.rule)
        /\ expansion'.current > expansion.current ]_vars


\* ---------------------------------------------------- weekly rules
\* C36: a WEEKLY rule with BYDAY and COUNT=N, started on a listed weekday and
\* expanded over a view that holds all its dates, yields N dates: the start
\* date first, then after each date the next listed weekday of the same week
\* or, when the week has none left, the first listed weekday of the week
\* INTERVAL weeks later; the dates increase strictly.  BYDAY=MO,WE;COUNT=4
\* from a Monday yields that Monday, the Wednesday, the next Monday and the
\* next Wednesday.
C36_WeeklyByDayDates ==
  LET x == expansion
      rule == x.rule
      occ == x.occurrences
      Listed(d) == \E i \in 1..Len(rule.byDay) :
                     rule.byDay[i] \in DOMAIN dayMap
                       /\ dayMap[rule.byDay[i]] = d % 7
      FirstListed(from, to) ==
        CHOOSE d \in from..to :
          Listed(d) /\ \A e \in from..(d - 1) : ~Listed(e)
      Sunday(d) == d - (d % 7)
      After(a) ==
        IF \E d \in (a + 1)..(Sunday(a) + 6) : Listed(d)
        THEN FirstListed(a + 1, Sunday(a) + 6)
        ELSE FirstListed(Sunday(a) + 7 * rule.interval,
                         Sunday(a) + 7 * rule.interval + 6)
  IN ( /\ x.pc = "returned"
       /\ rule.freq = "WEEKLY"
       /\ rule.byDay # <<>>
       /\ rule.count # <<>> /\ rule.count[1] >= 1
       /\ rule.until = <<>>
       /\ Listed(x.startDate)
       /\ x.viewStart <= x.startDate /\ x.current <= x.viewEnd )
     => /\ Len(occ) = rule.count[1]
        /\ occ[1] = x.startDate
        /\ \A k \in 1..(Len(occ) - 1) :
             occ[k] < occ[k + 1] /\ occ[k + 1] = After(occ[k])
        /\ ( rule.byDay = <<"MO", "WE">> /\ rule.count = <<4>>
               /\ rule.interval = 1 /\ x.startDate % 7 = dayMap["MO"] )
             => occ = <<x.startDate, x.startDate + 2, x.startDate + 7,
                        x.startDate + 9>>

\* FREQ=WEEKLY;INTERVAL=2;BYDAY=MO,WE;COUNT=4 from Monday 1 January 2024 has
\* returned 1, 3, 15 and 17 January.
C36_Witness ==
  /\ expansion.pc = "returned"
  /\ expansion.rule = Rule("WEEKLY", 2, <<4>>, <<"MO", "WE">>, <<>>, <<>>)
  /\ expansion.startDate = DateOf(2024, 1, 1)
  /\ expansion.occurrences = <<DateOf(2024, 1, 1), DateOf(2024, 1, 3),
                               DateOf(2024, 1, 15), DateOf(2024, 1, 17)>>


\* ---------------------------------------------- one rule, two views
\* C37: the dates returned depend on the arguments only, and two views give
\* the same dates where they overlap: when a call has returned, its result is
\* the value of parseRecurrenceRule for its arguments, and the dates of it
\* that lie in a second view are exactly the dates that the same rule and
\* start date yield for the second view and that lie in the first.  The
\* second view is the one that overlaps each view a call is made with.
C37_SameDatesWhereViewsOverlap ==
  LET x == expansion
      Dates(occ, view) ==
        { occ[k] : k \in { j \in 1..Len(occ) : InView(occ[j], view[1], view[2]) } }
  IN x.pc = "returned" =>
       /\ x.occurrences
            = parseRecurrenceRule(x.rule, x.startDate, x.viewStart, x.viewEnd)
       /\ Dates(x.occurrences, ShiftedView)
            = Dates(parseRecurrenceRule(x.rule, x.startDate, ShiftedView[1],
                                        ShiftedView[2]),
                    <<x.viewStart, x.viewEnd>>)

\* FREQ=DAILY;INTERVAL=2 from 1 January 2024 has returned for the view of
\* January: it shares the odd days from 15 to 31 January with the view from
\* 15 January to 15 February.
C37_Witness ==
  /\ expansion.pc = "returned"
  /\ expansion.rule = Rule("DAILY", 2, <<>>, <<>>, <<>>, <<>>)
  /\ expansion.startDate = DateOf(2024, 1, 1)
  /\ expansion.viewEnd = DateOf(2024, 1, 31)
  /\ Len(SelectSeq(expansion.occurrences,
                   LAMBDA d : InView(d, ShiftedView[1], ShiftedView[2]))) = 9


\* ------------------------------------------------------ rules with UNTIL
\* C38: no date returned for a rule with UNTIL is later than UNTIL (for a
\* series that starts on or before its UNTIL).
C38_NoDateAfterUntil ==
  (expansion.rule.until # <<>>
     /\ expansion.startDate <= expansion.rule.until[1]) =>
    \A k \in 1..Len(expansion.occurrences) :
      expansion.occurrences[k] <= expansion.rule.until[1]

\* ------------------------------------------- series that began long ago
\* The dates a rule generates up to a day, by FREQ and INTERVAL and the BY
\* lists alone: the start date and every date a step from a generated date
\* leads to, as long as the steps move forward.
RECURSIVE Generated(_, _, _)
Generated(rule, d, last) ==
  IF d > last THEN {}
  ELSE {d} \cup (IF NextCandidate(rule, d) > d
                 THEN Generated(rule, NextCandidate(rule, d), last) ELSE {})

\* C39: for a rule without COUNT and without UNTIL, every date the rule
\* generates that lies in the view (and in a month BYMONTH lists) is
\* returned, however long before the view the series started.
C39_EveryDateOfTheViewReturned ==
  LET x == expansion
  IN (x.pc = "returned" /\ x.rule.count = <<>> /\ x.rule.until = <<>>) =>
       \A d \in Generated(x.rule, x.startDate, x.viewEnd) :
         (d = x.startDate \/ Included(x.rule, d, x.viewStart, x.viewEnd))
           => (InView(d, x.viewStart, x.viewEnd) =>
                 \E k \in 1..Len(x.occurrences) : x.occurrences[k] = d)


\* ------------------------------------------- records updated from events
\* C40: a record that the Remote->Local direction has updated from an event
\* maps back to an event of the same kind (all-day or timed) with the same
\* start and the same end, also when the event was timed at the previous
\* sync and is all-day now.
C40_UpdatedRecordMapsBack ==
  mapping.pc = "reread" =>
    /\ mapping.back.thrown = "none"
    /\ mapping.back.event.allDay = mapping.event.allDay
    /\ mapping.back.event.start = mapping.event.start
    /\ mapping.back.event.end = mapping.event.end

====
